---------------------------- MODULE Spec2Model ----------------------------
(***************************************************************************)
(* Bulk Page Cloner: the resolvers of the Forge app.                       *)
(*                                                                         *)
(* SpecBulk  - one run of the bulk creation engine                         *)
(* SpecCrawl - one run of the exhaustive crawl (getAllPagesOptimized)      *)
(*                                                                         *)
(* Two variants of the engine are in the repository:                       *)
(*   "legacy"   - bulkGeneratePages             (src/unnamed/part_000)     *)
(*   "progress" - bulkGeneratePagesWithProgress (src/unnamed/part_001)     *)
(* One run of one resolver is modelled as a state machine whose steps are  *)
(* the pieces of the async function between two suspension points (await). *)
(***************************************************************************)
EXTENDS Integers, Sequences, FiniteSets, TLC

(***************************************************************************)
(* Bounds of the model.                                                    *)
(***************************************************************************)
MaxTitles == 3
MaxSpaces == 2
MaxFailures == 1
MaxUrlLen == 4
MaxCount == 4

(***************************************************************************)
(* Values.  A falsy JavaScript value (undefined, null, "") is "".          *)
(***************************************************************************)
NoId == ""
CallerParentId == "p9"
StoreSpaceId == "s7"
Blank == " "
TemplateKey == "template_t1"
TemplateContent == "<p>template body</p>"

Min(a, b) == IF a < b THEN a ELSE b
Max(a, b) == IF a > b THEN a ELSE b

\* the i-th title a caller submits (1-based position), distinct per position
TitleAt(i) == "T" \o ToString(i)

\* String.prototype.trim over the strings of the model
Trim(s) == IF s = Blank THEN "" ELSE s

\* title lists of length 0..MaxTitles; each entry is a title or whitespace
TitleLists ==
  UNION { [1..n -> {"T", Blank}] : n \in 0..MaxTitles }

MkTitles(f) == [i \in 1..Len(f) |-> IF f[i] = Blank THEN Blank ELSE TitleAt(i)]

Variants == {"legacy", "progress"}
Organizations == {"create-child", "create-as-parent", "create-parent", "create"}
Outcomes == {"ok", "fail", "throw"}

VARIABLES
  variant,            \* which resolver runs
  isProduction,       \* IS_PRODUCTION of the module
  storage,            \* Forge storage: key -> template
  payload,            \* req.payload
  pc,                 \* position of the resolver
  titlesToCreate,
  templateData,
  spaceLookup,        \* how the lookup of the space key ended ("none": not made)
  numericSpaceId,
  actualParentPageId,
  batches,
  batchIndex,         \* 0-based, as in the source
  itemIndex,          \* 0-based position inside the current batch
  batchResults,
  createdPages,
  errors,
  requests,           \* every POST /wiki/api/v2/pages of the run, in issue order
  storePages,         \* documents of the remote store created so far
  result              \* what the resolver returned or threw

bulkVars == <<variant, isProduction, storage, payload, pc, titlesToCreate,
              templateData, spaceLookup, numericSpaceId, actualParentPageId, batches,
              batchIndex, itemIndex, batchResults, createdPages, errors,
              requests, storePages, result>>

(***************************************************************************)
(* State of one run of getAllPagesOptimized.  A list of documents is kept  *)
(* run-length encoded: an entry with n |-> k stands for k documents in a   *)
(* row that differ in nothing the crawl looks at.                          *)
(***************************************************************************)
VARIABLES
  store,              \* the remote store: per space, what its page list serves
  cpc,                \* position of the crawl
  spaces,
  start,
  spaceIdx,           \* 1-based position of the for loop over spaces
  spacePages,
  pageStart,
  allPages,
  crawlLog,           \* every list request of the crawl with its answer
  cresult             \* what the crawl returned or threw

crawlVars == <<store, cpc, spaces, start, spaceIdx, spacePages, pageStart,
               allPages, crawlLog, cresult>>

NoCrawlResult ==
  [kind |-> "none", pages |-> <<>>, spaces |-> <<>>, error |-> "",
   totalCount |-> 0, loadedSpaces |-> 0]

\* no crawl is running
CrawlIdle ==
  /\ store = <<>>
  /\ cpc = "idle"
  /\ spaces = <<>>
  /\ start = 0
  /\ spaceIdx = 0
  /\ spacePages = <<>>
  /\ pageStart = 0
  /\ allPages = <<>>
  /\ crawlLog = <<>>
  /\ cresult = NoCrawlResult

(***************************************************************************)
(* State of one run of uploadTemplate.  A url is a sequence of pieces of   *)
(* text; the url string is their concatenation.                            *)
(***************************************************************************)
VARIABLES
  upayload,           \* req.payload of uploadTemplate
  upc,                \* position of the capture
  finalPageId,
  fetches,            \* ids of the documents the capture asked the store for
  templateId,         \* the id the capture generated for its template
  uresult             \* what the capture returned or threw

captureVars == <<upayload, upc, finalPageId, fetches, templateId, uresult>>

NoCaptureResult == [kind |-> "none", success |-> FALSE, error |-> ""]

\* no capture is running
CaptureIdle ==
  /\ upayload = [pageId |-> NoId, url |-> <<>>, name |-> ""]
  /\ upc = "idle"
  /\ finalPageId = NoId
  /\ fetches = <<>>
  /\ templateId = ""
  /\ uresult = NoCaptureResult

(***************************************************************************)
(* State of one run of bulkGeneratePages of src/src/index.js, the resolver *)
(* that generates its titles from a mode.                                  *)
(***************************************************************************)
VARIABLES
  gparams,            \* the title parameters of req.payload
  gpc,                \* position of the run
  pageCount,
  gi,                 \* the loop variable i
  attempts            \* the create requests issued, with their outcome

titleVars == <<gparams, gpc, pageCount, gi, attempts>>

NoParams ==
  [generationMode |-> "single", pageTitle |-> "", numberedCount |-> 0,
   monthlyTargetMonth |-> "", monthlyTargetYear |-> 0, monthlyCount |-> 0,
   quarterlyStartQuarter |-> "", quarterlyTargetYear |-> 0,
   quarterlyCount |-> 0,
   weeklyStartMonth |-> "", weeklyStartDay |-> 0, weeklyStartYear |-> 0,
   weeklyCount |-> 0]

\* no title run is going on
TitlesIdle ==
  /\ gparams = NoParams
  /\ gpc = "idle"
  /\ pageCount = 0
  /\ gi = 0
  /\ attempts = <<>>

(***************************************************************************)
(* State of one application of handleDuplicateNames of the UI and of its   *)
(* re-application to its own result.                                       *)
(***************************************************************************)
VARIABLES
  dtitles,            \* the argument `titles`
  dpc,                \* "idle", "once" (applied), "twice" (applied again)
  dresult,            \* handleDuplicateNames(titles)
  dagain              \* handleDuplicateNames(dresult)

dedupVars == <<dtitles, dpc, dresult, dagain>>

DedupIdle ==
  /\ dtitles = <<>>
  /\ dpc = "idle"
  /\ dresult = <<>>
  /\ dagain = <<>>

(***************************************************************************)
(* State of the step flow of the UI component BulkPageCloner together with *)
(* the remote effects of the resolvers it invokes.                         *)
(***************************************************************************)
VARIABLES
  currentStep,
  selectedTemplate,   \* null ("") or the id of the captured template
  uiPageCount,        \* the state `pageCount` of the component
  uiPageTitles,       \* the state `pageTitles` of the component
  selectedSpace,
  pageOrganization,
  selectedParentPage,
  newParentTitle,
  generating,
  generationSuccess,
  uiError,            \* the state `error`: is a message shown
  upload,             \* is an invoke('uploadTemplate') awaited
  invocation,         \* the awaited invoke('bulkGeneratePagesWithProgress')
  started,            \* invocations of the engine made so far
  returned,           \* invocations of the engine that returned
  templateStore,      \* remote: the captured templates
  pageWrites          \* remote: page-create requests issued so far

flowVars == <<currentStep, selectedTemplate, uiPageCount, uiPageTitles,
              selectedSpace, pageOrganization, selectedParentPage,
              newParentTitle, generating, generationSuccess, uiError, upload,
              invocation, started, returned, templateStore, pageWrites>>

NoCall == [inFlight |-> FALSE, pageTitles |-> <<>>, created |-> 0]

\* the component as useState leaves it (lines 32-60); nothing invoked yet
FlowIdle ==
  /\ currentStep = 1
  /\ selectedTemplate = ""
  /\ uiPageCount = 3
  /\ uiPageTitles = <<"", "", "">>
  /\ selectedSpace = ""
  /\ pageOrganization = "create-child"
  /\ selectedParentPage = ""
  /\ newParentTitle = ""
  /\ generating = FALSE
  /\ generationSuccess = FALSE
  /\ uiError = FALSE
  /\ upload = FALSE
  /\ invocation = NoCall
  /\ started = 0
  /\ returned = 0
  /\ templateStore = {}
  /\ pageWrites = 0

(***************************************************************************)
(* State of the resolver-side cache of part_001 and of the clock it reads. *)
(***************************************************************************)
VARIABLES
  cache,              \* the Map: key -> {data, timestamp}
  now,                \* Date.now()
  ticks,              \* how often the clock has advanced
  lookup,             \* the last getCached call: key, entry found, result
  evicted             \* the keys getCached has deleted an entry of

cacheVars == <<cache, now, ticks, lookup, evicted>>

NoLookup ==
  [key |-> "", found |-> FALSE, age |-> 0, data |-> "null", kept |-> FALSE]

CacheIdle ==
  /\ cache = <<>>
  /\ now = 0
  /\ ticks = 0
  /\ lookup = NoLookup
  /\ evicted = {}

(***************************************************************************)
(* State of one run of the batching loop of the two bulk resolvers.        *)
(***************************************************************************)
VARIABLES
  bvariant,           \* which resolver batches
  bn,                 \* titlesToCreate.length
  bpc,                \* "idle" or "split"
  bbatches            \* the array `batches`

batchVars == <<bvariant, bn, bpc, bbatches>>

BatchIdle ==
  /\ bvariant = "legacy"
  /\ bn = 0
  /\ bpc = "idle"
  /\ bbatches = <<>>

uiVars == <<dedupVars, flowVars>>
laterVars == <<uiVars, cacheVars, batchVars>>

\* nothing of the UI, the cache or the stand-alone batching has happened
LaterIdle == DedupIdle /\ FlowIdle /\ CacheIdle /\ BatchIdle

nonBulkVars == <<crawlVars, captureVars, titleVars, laterVars>>
nonCrawlVars == <<captureVars, titleVars, laterVars>>
nonCaptureVars == <<crawlVars, titleVars, laterVars>>
nonTitleVars == <<crawlVars, captureVars, laterVars>>
resolverVars == <<bulkVars, crawlVars, captureVars, titleVars>>
nonDedupVars == <<resolverVars, flowVars, cacheVars, batchVars>>
nonFlowVars == <<resolverVars, dedupVars, cacheVars, batchVars>>
nonCacheVars == <<resolverVars, uiVars, batchVars>>
nonBatchVars == <<resolverVars, uiVars, cacheVars>>

vars == <<bulkVars, nonBulkVars>>

(***************************************************************************)
(* Logging helpers.                                                        *)
(***************************************************************************)
\* log(): part_000 prints; part_001 is a no-op in production and calls
\* itself without end (RangeError) in development
logReturns(v, prod) == v = "legacy" \/ prod

\* logError(): part_000 prints; part_001 calls itself in both branches
logErrorReturns(v) == v = "legacy"

(***************************************************************************)
(* Title selection and batching.                                           *)
(***************************************************************************)
\* only empty strings are dropped, whitespace is kept
FilterTitlesNonEmpty(ts) == SelectSeq(ts, LAMBDA t : t # "")

\* pageTitles.filter(title => title && title.trim())
FilterTitles(ts) == SelectSeq(ts, LAMBDA t : t # "" /\ Trim(t) # "")

\* Math.floor(n / 10)
FloorDiv10(n) == n \div 10

\* Math.ceil(n / 10)
CeilDiv10(n) == (n + 9) \div 10

BATCH_SIZE == 10

\* OPTIMAL_BATCH_SIZE / BATCH_SIZE
BatchSize(v, n) ==
  IF v = "progress" THEN Min(5, Max(1, CeilDiv10(n))) ELSE BATCH_SIZE

\* the batches: consecutive slices of {index, title}
MakeBatches(ts, B) ==
  LET n == Len(ts)
      nb == (n + B - 1) \div B
  IN [b \in 1..nb |->
        [k \in 1..(Min(b * B, n) - (b - 1) * B) |->
           [index |-> (b - 1) * B + k - 1, title |-> ts[(b - 1) * B + k]]]]

(***************************************************************************)
(* The parent of a child page.                                             *)
(***************************************************************************)
\* the parent id both variants start from
InitialParent(v, p) == IF v = "legacy" THEN p.parentPageId ELSE NoId

\* does this run create a new parent page first
WantsNewParent(v, p) ==
  IF v = "legacy"
  THEN p.pageOrganization \in {"create", "create-parent"} /\ p.newParentTitle # ""
  ELSE p.pageOrganization = "create-parent" /\ p.newParentTitle # ""

\* actualParentPageId when no parent page is created
ExistingParent(v, p) ==
  IF v = "legacy"
  THEN p.parentPageId
  ELSE IF p.pageOrganization = "create-child" /\ p.parentPageId # NoId
       THEN p.parentPageId
       ELSE NoId

\* the parent is attached whatever the organization mode
ChildParentIdAnyMode(v, org, parent) == parent

\* pagePayload.parentId of a child request (NoId: the key is not set)
ChildParentId(v, org, parent) ==
  IF v = "legacy"
  THEN IF org = "create-child" /\ parent # NoId THEN parent
       ELSE IF org \in {"create", "create-parent"} /\ parent # NoId THEN parent
       ELSE NoId
  ELSE parent


(***************************************************************************)
(* Records exchanged with the remote store and kept by the run.            *)
(***************************************************************************)
NoTemplate == [name |-> "", content |-> ""]
StoredTemplate == [name |-> "Template One", content |-> TemplateContent]

NoResult == [kind |-> "none", success |-> FALSE, error |-> "", data |-> [none |-> TRUE]]

\* the id the store gives to the next document it creates
NextId(docs) == "id" \o ToString(Len(docs) + 1)

\* the last request of the log with its outcome filled in
Answered(reqs, o, newId) ==
  [reqs EXCEPT ![Len(reqs)] = [@ EXCEPT !.outcome = o, !.id = newId]]

\* the document the store creates for the pending request
Created(req, newId) ==
  [id |-> newId, title |-> req.title, spaceId |-> req.spaceId,
   parentId |-> req.parentId, body |-> req.body]

\* batchResults entry of a created page
SuccessResult(v, info, doc, p) ==
  IF v = "legacy"
  THEN [success |-> TRUE, pageId |-> doc.id, title |-> info.title,
        url |-> <<"siteUrl", "/wiki/spaces/", p.spaceKey, "/pages/", doc.id>>]
  ELSE [index |-> info.index, success |-> TRUE,
        page |-> [id |-> doc.id, title |-> doc.title,
                  url |-> <<"base", "webui", doc.id>>]]

\* batchResults entry of a non-2xx response
HttpErrorResult(v, info) ==
  IF v = "legacy"
  THEN [success |-> FALSE, error |-> <<info.title, ": ", "errorText">>]
  ELSE [index |-> info.index, success |-> FALSE,
        error |-> "Failed to create page: status", title |-> info.title]

\* batchResults entry made by the catch block
ThrownErrorResult(v, info) ==
  IF v = "legacy"
  THEN [success |-> FALSE, error |-> <<"Page ", ToString(info.index + 1), ": ", "message">>]
  ELSE [index |-> info.index, success |-> FALSE,
        error |-> "message", title |-> info.title]

\* batchResults.forEach: what the batch adds to createdPages
BatchPages(v, br) ==
  LET ok == SelectSeq(br, LAMBDA r : r.success)
  IN IF v = "legacy" THEN ok ELSE [k \in 1..Len(ok) |-> ok[k].page]

\* batchResults.forEach: what the batch adds to errors
BatchErrors(v, br) ==
  LET bad == SelectSeq(br, LAMBDA r : ~r.success)
  IN IF v = "legacy" THEN [k \in 1..Len(bad) |-> bad[k].error] ELSE bad

\* the object the resolver returns after the last batch
Report(v, pages, errs, n, bs) ==
  IF v = "legacy"
  THEN [pages |-> pages, errors |-> errs, reportCount |-> Len(pages)]
  ELSE [createdCount |-> Len(pages), errorCount |-> Len(errs),
        pages |-> pages, errors |-> errs, totalRequested |-> n,
        batchCount |-> Len(bs),
        batchSize |-> BatchSize(v, n)]

(***************************************************************************)
(* Initial states: a freshly loaded module, a template store that holds    *)
(* the template or not, and one request payload.                           *)
(***************************************************************************)
Payloads ==
  [templateId : {"", "t1"}, spaceKey : {"", "SK"},
   spaceId : {NoId, StoreSpaceId}, parentPageId : {NoId, CallerParentId},
   pageTitle : {"", "S"}, pageTitles : {MkTitles(f) : f \in TitleLists},
   pageOrganization : Organizations, newParentTitle : {"", "NP"}]

\* no bulk resolver has been invoked
NoPayload ==
  [templateId |-> "", spaceKey |-> "", spaceId |-> NoId, parentPageId |-> NoId,
   pageTitle |-> "", pageTitles |-> <<>>, pageOrganization |-> "create-child",
   newParentTitle |-> ""]

\* the module is about to be loaded
ModuleFresh ==
  /\ variant \in Variants
  /\ isProduction \in (IF variant = "progress" THEN BOOLEAN ELSE {TRUE})
  /\ pc = "load"

\* no bulk run has started
BulkFresh ==
  /\ titlesToCreate = <<>>
  /\ templateData = NoTemplate
  /\ spaceLookup = "none"
  /\ numericSpaceId = NoId
  /\ actualParentPageId = NoId
  /\ batches = <<>>
  /\ batchIndex = 0
  /\ itemIndex = 0
  /\ batchResults = <<>>
  /\ createdPages = <<>>
  /\ errors = <<>>
  /\ requests = <<>>
  /\ storePages = <<>>
  /\ result = NoResult

Init ==
  /\ ModuleFresh
  /\ storage \in {<<>>, TemplateKey :> StoredTemplate}
  /\ payload \in Payloads
  /\ BulkFresh
  /\ CrawlIdle
  /\ CaptureIdle
  /\ TitlesIdle
  /\ LaterIdle

(***************************************************************************)
(* Ways a run ends.                                                        *)
(***************************************************************************)
\* an Error thrown in the resolver body: part_000 catches it and returns
\* {success: false, error}; part_001 has no catch and rejects
Failure(v, msg) ==
  IF v = "legacy"
  THEN [kind |-> "returned", success |-> FALSE, error |-> msg, data |-> [none |-> TRUE]]
  ELSE [kind |-> "thrown", success |-> FALSE, error |-> msg, data |-> [none |-> TRUE]]

\* the RangeError of a logging helper that calls itself
StackOverflow == [kind |-> "thrown", success |-> FALSE,
                  error |-> "Maximum call stack size exceeded", data |-> [none |-> TRUE]]

Fail(msg) ==
  /\ result' = Failure(variant, msg)
  /\ pc' = "done"

(***************************************************************************)
(* Module load: the top-level log() call.  In part_001 outside production  *)
(* log calls itself, the load throws and no resolver is ever defined.      *)
(***************************************************************************)
LoadModule ==
  /\ pc = "load"
  /\ pc' = IF logReturns(variant, isProduction) THEN "start" ELSE "loadFailed"
  /\ UNCHANGED nonBulkVars
  /\ UNCHANGED <<variant, isProduction, storage, payload, titlesToCreate,
                 templateData, spaceLookup, numericSpaceId, actualParentPageId,
                 batches, batchIndex, itemIndex, batchResults, createdPages,
                 errors, requests, storePages, result>>

(***************************************************************************)
(* Entry of the resolver up to `await storage.get(...)`.                   *)
(***************************************************************************)
\* titlesToCreate, <<>> when the resolver throws instead
ChooseTitles(p) ==
  IF Len(p.pageTitles) > 0 THEN FilterTitles(p.pageTitles)
  ELSE IF p.pageTitle # "" THEN <<p.pageTitle>>
  ELSE <<>>

Start ==
  /\ pc = "start"
  /\ IF payload.templateId = "" \/ payload.spaceKey = ""
     THEN Fail("templateId and spaceKey are required") /\ UNCHANGED titlesToCreate
     ELSE IF Len(payload.pageTitles) = 0 /\ payload.pageTitle = ""
     THEN Fail("Either pageTitle or pageTitles array is required") /\ UNCHANGED titlesToCreate
     ELSE IF Len(ChooseTitles(payload)) = 0
     THEN Fail("No valid page titles provided") /\ UNCHANGED titlesToCreate
     ELSE /\ titlesToCreate' = ChooseTitles(payload)
          /\ pc' = "getTemplate"
          /\ UNCHANGED result
  /\ UNCHANGED nonBulkVars
  /\ UNCHANGED <<variant, isProduction, storage, payload, templateData,
                 spaceLookup, numericSpaceId, actualParentPageId, batches,
                 batchIndex, itemIndex, batchResults, createdPages, errors,
                 requests, storePages>>

(***************************************************************************)
(* From the resolved space id to the first child request.                  *)
(***************************************************************************)
\* the batches are built and the loop is entered
BeginBatches ==
  /\ batches' = MakeBatches(titlesToCreate,
                            BatchSize(variant, Len(titlesToCreate)))
  /\ batchIndex' = 0
  /\ itemIndex' = 0
  /\ batchResults' = <<>>
  /\ pc' = "loop"

\* POST of the new parent page
ParentRequest(v, p, sid) ==
  [kind |-> "parent",
   title |-> IF v = "legacy" THEN Trim(p.newParentTitle) ELSE p.newParentTitle,
   spaceId |-> sid, parentId |-> NoId, body |-> "", index |-> -1,
   outcome |-> "pending", id |-> NoId]

\* may the run go on with this numericSpaceId (part_000 throws on a falsy
\* id, part_001 does not look at it)
SpaceIdAccepted(v, sid) == v = "progress" \/ sid # NoId

\* the code after the space id is known; sid is numericSpaceId
ParentStep(sid) ==
  /\ numericSpaceId' = sid
  /\ IF ~SpaceIdAccepted(variant, sid)
     THEN /\ Fail("Could not resolve numeric space ID for space")
          /\ UNCHANGED <<actualParentPageId, requests, batches, batchIndex,
                         itemIndex, batchResults>>
     ELSE IF WantsNewParent(variant, payload)
     THEN /\ actualParentPageId' = InitialParent(variant, payload)
          /\ requests' = Append(requests, ParentRequest(variant, payload, sid))
          /\ pc' = "awaitParent"
          /\ UNCHANGED <<result, batches, batchIndex, itemIndex, batchResults>>
     ELSE /\ actualParentPageId' = ExistingParent(variant, payload)
          /\ BeginBatches
          /\ UNCHANGED <<result, requests>>

\* storage.get answered
TemplateLoaded ==
  /\ pc = "getTemplate"
  /\ IF TemplateKey \in DOMAIN storage
     THEN /\ templateData' = storage[TemplateKey]
          /\ IF payload.spaceId # NoId
             THEN ParentStep(payload.spaceId)
             ELSE /\ pc' = "awaitSpace"
                  /\ numericSpaceId' = payload.spaceId
                  /\ UNCHANGED <<actualParentPageId, requests, batches,
                                 batchIndex, itemIndex, batchResults, result>>
     ELSE /\ Fail("Template not found")
          /\ UNCHANGED <<templateData, numericSpaceId, actualParentPageId,
                         requests, batches, batchIndex, itemIndex, batchResults>>
  /\ UNCHANGED nonBulkVars
  /\ UNCHANGED <<variant, isProduction, storage, payload, titlesToCreate,
                 spaceLookup, createdPages, errors, storePages>>

SpaceOutcomes == {"match", "nomatch", "fail", "throw"}

\* spaceData.results?.[0]?.id, or what is left in numericSpaceId
ResolvedSpaceId(o) == IF o = "match" THEN StoreSpaceId ELSE NoId

\* GET /wiki/api/v2/spaces?keys=...&limit=1 answered
SpaceResponse ==
  /\ pc = "awaitSpace"
  /\ \E o \in SpaceOutcomes :
       /\ spaceLookup' = o
       /\ IF o = "throw"
          THEN IF variant = "legacy"
               THEN /\ Fail("message")
                    /\ UNCHANGED <<numericSpaceId, actualParentPageId, requests,
                                   batches, batchIndex, itemIndex, batchResults>>
               ELSE IF logErrorReturns(variant)
               THEN ParentStep(NoId)
               ELSE /\ result' = StackOverflow
                    /\ pc' = "done"
                    /\ UNCHANGED <<numericSpaceId, actualParentPageId, requests,
                                   batches, batchIndex, itemIndex, batchResults>>
          ELSE ParentStep(ResolvedSpaceId(o))
  /\ UNCHANGED nonBulkVars
  /\ UNCHANGED <<variant, isProduction, storage, payload, titlesToCreate,
                 templateData, createdPages, errors, storePages>>

\* the documents of the run are deleted again
StoreRolledBack(docs) == <<>>

\* the store after a request of the run failed: the failure paths send
\* nothing to the store
StoreAfterFailure(docs) == docs

\* the id of the new page is dropped and the payload's parent is kept
ParentIdFromPayload(p, newId) == p.parentPageId

\* actualParentPageId after the parent page was created
ParentIdAfterCreate(p, newId) == newId

\* the failure of the parent request is not looked at
ParentRejectedIgnored(o) ==
  /\ requests' = Answered(requests, o, NoId)
  /\ BeginBatches
  /\ UNCHANGED <<storePages, actualParentPageId, result>>

\* the parent page was not created: non-2xx or a thrown request
ParentRejected(o) ==
  /\ requests' = Answered(requests, o, NoId)
  /\ Fail(IF o = "fail" THEN "Failed to create parent page" ELSE "message")
  /\ storePages' = StoreAfterFailure(storePages)
  /\ UNCHANGED <<actualParentPageId, batches, batchIndex,
                 itemIndex, batchResults>>

\* POST of the parent page answered
ParentResponse ==
  /\ pc = "awaitParent"
  /\ \E o \in Outcomes :
       IF o = "ok"
       THEN /\ storePages' = Append(storePages,
                 Created(requests[Len(requests)], NextId(storePages)))
            /\ requests' = Answered(requests, o, NextId(storePages))
            /\ actualParentPageId' = ParentIdAfterCreate(payload, NextId(storePages))
            /\ BeginBatches
            /\ UNCHANGED result
       ELSE ParentRejected(o)
  /\ UNCHANGED nonBulkVars
  /\ UNCHANGED <<variant, isProduction, storage, payload, titlesToCreate,
                 templateData, spaceLookup, numericSpaceId, createdPages, errors>>

(***************************************************************************)
(* The creation loop.                                                      *)
(***************************************************************************)
\* pageInfo of the loop position
CurrentInfo == batches[batchIndex + 1][itemIndex + 1]

\* pagePayload of a child page
ChildRequest(v, p, info, sid, parent, tpl) ==
  [kind |-> "child", title |-> info.title, spaceId |-> sid,
   parentId |-> ChildParentId(v, p.pageOrganization, parent),
   body |-> tpl.content, index |-> info.index,
   outcome |-> "pending", id |-> NoId]

\* the resolver's return statement
Return(pages, errs) ==
  /\ result' = [kind |-> "returned", success |-> TRUE, error |-> "",
                data |-> Report(variant, pages, errs, Len(titlesToCreate), batches)]
  /\ pc' = "done"

\* is the item at position i the last of batch b (both 0-based)
LastOfBatch(bs, b, i) == i + 1 >= Len(bs[b + 1])

\* is batch b (0-based) the last batch
LastBatch(bs, b) == b + 1 >= Len(bs)

\* the list is assigned instead of extended
PushAllReplace(list, items) == items

\* the items are put in front of the list
PushAllFront(list, items) == items \o list

\* list.push(item) for every item, in order
PushAll(list, items) == list \o items

\* the loop goes on after the current item was recorded; br is batchResults
\* with the new entry
Advance(br) ==
  IF ~LastOfBatch(batches, batchIndex, itemIndex)
  THEN /\ batchResults' = br
       /\ itemIndex' = itemIndex + 1
       /\ pc' = "loop"
       /\ UNCHANGED <<batchIndex, createdPages, errors, result>>
  ELSE /\ createdPages' = PushAll(createdPages, BatchPages(variant, br))
       /\ errors' = PushAll(errors, BatchErrors(variant, br))
       /\ IF LastBatch(batches, batchIndex)
          THEN /\ Return(PushAll(createdPages, BatchPages(variant, br)),
                         PushAll(errors, BatchErrors(variant, br)))
               /\ batchResults' = br
               /\ UNCHANGED <<batchIndex, itemIndex>>
          ELSE IF variant = "progress"
          THEN /\ pc' = "batchDelay"
               /\ batchResults' = br
               /\ UNCHANGED <<batchIndex, itemIndex, result>>
          ELSE /\ batchIndex' = batchIndex + 1
               /\ itemIndex' = 0
               /\ batchResults' = <<>>
               /\ pc' = "loop"
               /\ UNCHANGED result

\* the catch block of one item: the error is logged, then recorded
CatchCreateError ==
  IF logErrorReturns(variant)
  THEN Advance(Append(batchResults, ThrownErrorResult(variant, CurrentInfo)))
  ELSE /\ result' = StackOverflow
       /\ pc' = "done"
       /\ UNCHANGED <<batchIndex, itemIndex, batchResults, createdPages, errors>>

\* the request is sent but not awaited: the answer is missing when the
\* code reads it, the catch block records an error and the loop goes on
IssueCreateNoAwait ==
  /\ pc = "loop"
  /\ requests' = Append(requests,
        ChildRequest(variant, payload, CurrentInfo, numericSpaceId,
                     actualParentPageId, templateData))
  /\ Advance(Append(batchResults, ThrownErrorResult(variant, CurrentInfo)))
  /\ UNCHANGED nonBulkVars
  /\ UNCHANGED <<variant, isProduction, storage, payload, titlesToCreate,
                 templateData, spaceLookup, numericSpaceId, actualParentPageId,
                 batches, storePages>>

\* `const response = await api.asUser().requestConfluence(...)`: the request
\* of the current title is sent and the resolver waits for the answer
IssueCreate ==
  /\ pc = "loop"
  /\ requests' = Append(requests,
        ChildRequest(variant, payload, CurrentInfo, numericSpaceId,
                     actualParentPageId, templateData))
  /\ pc' = "awaitCreate"
  /\ UNCHANGED nonBulkVars
  /\ UNCHANGED <<variant, isProduction, storage, payload, titlesToCreate,
                 templateData, spaceLookup, numericSpaceId, actualParentPageId,
                 batches, batchIndex, itemIndex, batchResults, createdPages,
                 errors, storePages, result>>

\* POST of a child page answered
CreateResponse ==
  /\ pc = "awaitCreate"
  /\ \E o \in Outcomes :
       CASE o = "ok" ->
              /\ storePages' = Append(storePages,
                    Created(requests[Len(requests)], NextId(storePages)))
              /\ requests' = Answered(requests, o, NextId(storePages))
              /\ IF variant = "legacy"
                 THEN /\ pc' = "createDelay"
                      /\ UNCHANGED <<batchIndex, itemIndex, batchResults,
                                     createdPages, errors, result>>
                 ELSE Advance(Append(batchResults,
                        SuccessResult(variant, CurrentInfo,
                          Created(requests[Len(requests)], NextId(storePages)),
                          payload)))
         [] o = "fail" ->
              /\ requests' = Answered(requests, o, NoId)
              /\ Advance(Append(batchResults, HttpErrorResult(variant, CurrentInfo)))
              /\ storePages' = StoreAfterFailure(storePages)
         [] o = "throw" ->
              /\ requests' = Answered(requests, o, NoId)
              /\ storePages' = StoreAfterFailure(storePages)
              /\ CatchCreateError
  /\ UNCHANGED nonBulkVars
  /\ UNCHANGED <<variant, isProduction, storage, payload, titlesToCreate,
                 templateData, spaceLookup, numericSpaceId, actualParentPageId,
                 batches>>

\* part_000: the 100 ms pause after a created page is over
CreateDelayDone ==
  /\ pc = "createDelay"
  /\ Advance(Append(batchResults,
        SuccessResult(variant, CurrentInfo, storePages[Len(storePages)], payload)))
  /\ UNCHANGED nonBulkVars
  /\ UNCHANGED <<variant, isProduction, storage, payload, titlesToCreate,
                 templateData, spaceLookup, numericSpaceId, actualParentPageId,
                 batches, requests, storePages>>

\* part_001: the 100 ms pause between two batches is over
BatchDelayDone ==
  /\ pc = "batchDelay"
  /\ batchIndex' = batchIndex + 1
  /\ itemIndex' = 0
  /\ batchResults' = <<>>
  /\ pc' = "loop"
  /\ UNCHANGED nonBulkVars
  /\ UNCHANGED <<variant, isProduction, storage, payload, titlesToCreate,
                 templateData, spaceLookup, numericSpaceId, actualParentPageId,
                 batches, createdPages, errors, requests, storePages, result>>

Next ==
  \/ LoadModule
  \/ Start
  \/ TemplateLoaded
  \/ SpaceResponse
  \/ ParentResponse
  \/ IssueCreate
  \/ CreateResponse
  \/ CreateDelayDone
  \/ BatchDelayDone

SpecBulk == Init /\ [][Next]_vars

(***************************************************************************)
(* Views of the state used by the properties.                              *)
(***************************************************************************)
ChildRequests == SelectSeq(requests, LAMBDA r : r.kind = "child")
ParentRequests == SelectSeq(requests, LAMBDA r : r.kind = "parent")
Pending == {k \in 1..Len(requests) : requests[k].outcome = "pending"}

\* the run got through its structural steps and entered the creation loop
LoopEntered == batches # <<>>

\* the resolver returned its report
Reported == result.kind = "returned" /\ result.success

TypeOK ==
  /\ pc \in {"load", "loadFailed", "start", "getTemplate", "awaitSpace",
             "awaitParent", "loop", "awaitCreate", "createDelay",
             "batchDelay", "done"}
  /\ spaceLookup \in SpaceOutcomes \cup {"none"}
  /\ Len(requests) <= MaxTitles + 1
  /\ Len(storePages) <= Len(requests)

(***************************************************************************)
(* Reading a report.                                                       *)
(***************************************************************************)
\* the store id of a pages entry
PageId(pg) == IF variant = "legacy" THEN pg.pageId ELSE pg.id

\* the original index of the title a pages entry was created for
PageIndex(pg) ==
  requests[CHOOSE k \in 1..Len(requests) :
             requests[k].kind = "child" /\ requests[k].id = PageId(pg)].index

\* the original index of the title an errors entry stands for
ErrorIndex(e) ==
  IF variant = "progress" THEN e.index
  ELSE IF e[1] = "Page "
  THEN (CHOOSE i \in 1..Len(titlesToCreate) : ToString(i) = e[2]) - 1
  ELSE (CHOOSE i \in 1..Len(titlesToCreate) : titlesToCreate[i] = e[1]) - 1

\* indices of the entries of a sequence, as a sequence of numbers
IndicesOf(seq, Ix(_)) == [k \in 1..Len(seq) |-> Ix(seq[k])]

Ascending(ns) == \A k \in 1..(Len(ns) - 1) : ns[k] < ns[k + 1]

(***************************************************************************)
(* C1.  Every report a bulk run returns accounts for every requested       *)
(* title exactly once: created pages plus error records equal the number   *)
(* of titles, and each title index has exactly one entry, in pages or in   *)
(* errors.                                                                 *)
(***************************************************************************)
C1_EveryTitleOneOutcome ==
  Reported =>
    LET n == Len(titlesToCreate)
        d == result.data
    IN /\ Len(d.pages) + Len(d.errors) = n
       /\ variant = "progress" =>
            /\ d.createdCount = Len(d.pages)
            /\ d.createdCount + Len(d.errors) = d.totalRequested
            /\ d.totalRequested = n
       /\ variant = "legacy" => d.reportCount = Len(d.pages)
       /\ \A i \in 0..(n - 1) :
            Cardinality({k \in 1..Len(d.pages) : PageIndex(d.pages[k]) = i})
            + Cardinality({k \in 1..Len(d.errors) : ErrorIndex(d.errors[k]) = i}) = 1

\* a report with created pages and error records
C1_Witness ==
  /\ Reported
  /\ Len(titlesToCreate) = 3
  /\ Len(result.data.pages) >= 1
  /\ Len(result.data.errors) >= 1

(***************************************************************************)
(* C2.  Once the creation loop is entered, every title gets exactly one    *)
(* create request by the end of the run: a failed create neither stops     *)
(* the run nor is it repeated.                                             *)
(***************************************************************************)
C2_EveryTitleRequestedOnce ==
  (pc = "done" /\ LoopEntered) =>
    \A i \in 0..(Len(titlesToCreate) - 1) :
      Cardinality({k \in 1..Len(requests) :
                     requests[k].kind = "child" /\ requests[k].index = i}) = 1

(***************************************************************************)
(* C3.  In the report of bulkGeneratePagesWithProgress, pages holds the    *)
(* created pages and errors the failed creates, both in ascending          *)
(* original index; an error record carries the title and the index of its  *)
(* item.                                                                   *)
(***************************************************************************)
C3_ReportInIndexOrder ==
  (Reported /\ variant = "progress") =>
    LET d == result.data
    IN /\ Ascending(IndicesOf(d.pages, PageIndex))
       /\ Ascending(IndicesOf(d.errors, ErrorIndex))
       /\ {d.pages[k].id : k \in 1..Len(d.pages)} =
            {requests[k].id : k \in {j \in 1..Len(requests) :
                 requests[j].kind = "child" /\ requests[j].outcome = "ok"}}
       /\ {d.errors[k].index : k \in 1..Len(d.errors)} =
            {requests[k].index : k \in {j \in 1..Len(requests) :
                 requests[j].kind = "child" /\ requests[j].outcome # "ok"}}
       /\ \A k \in 1..Len(d.errors) :
            d.errors[k].title = titlesToCreate[d.errors[k].index + 1]
       /\ \A k \in 1..Len(d.pages) :
            d.pages[k].title = titlesToCreate[PageIndex(d.pages[k]) + 1]

\* three titles, only the second create failed
C3_Witness ==
  /\ Reported
  /\ variant = "progress"
  /\ Len(titlesToCreate) = 3
  /\ IndicesOf(result.data.pages, PageIndex) = <<0, 2>>
  /\ IndicesOf(result.data.errors, ErrorIndex) = <<1>>

(***************************************************************************)
(* C4.  A run that entered the creation loop ends by returning             *)
(* success: true, whatever happened to the single creates.                 *)
(***************************************************************************)
C4_RunSucceedsDespiteItemFailures ==
  (pc = "done" /\ LoopEntered) => Reported

(***************************************************************************)
(* C5.  A run in mode create-child without a parent page id, or in mode    *)
(* create-parent without a new-parent title, fails and sends no create     *)
(* request.                                                                *)
(***************************************************************************)
MissingParentField(p) ==
  \/ p.pageOrganization = "create-child" /\ p.parentPageId = NoId
  \/ p.pageOrganization = "create-parent" /\ p.newParentTitle = ""

C5_MissingParentFieldNoWrite ==
  MissingParentField(payload) => (requests = <<>> /\ ~Reported)

(***************************************************************************)
(* C6.  When the lookup of the space key gives no id (no match, non-2xx    *)
(* response or a thrown request), the run fails and sends no create        *)
(* request.                                                                *)
(***************************************************************************)
C6_UnresolvedSpaceNoWrite ==
  spaceLookup \in {"nomatch", "fail", "throw"} =>
    (requests = <<>> /\ ~Reported)

(***************************************************************************)
(* C7.  In mode create-parent, when the create request of the parent page  *)
(* fails, the run fails and no child create request is sent.               *)
(***************************************************************************)
ParentFailed ==
  \E k \in 1..Len(requests) :
    requests[k].kind = "parent" /\ requests[k].outcome \in {"fail", "throw"}

C7_ParentFailureFailsRun ==
  ParentFailed =>
    /\ ChildRequests = <<>>
    /\ storePages = <<>>
    /\ pc = "done"
    /\ result.kind \in {"returned", "thrown"}
    /\ ~result.success

C7_Witness ==
  /\ payload.pageOrganization = "create-parent"
  /\ ParentFailed
  /\ pc = "done"

(***************************************************************************)
(* C8.  In mode create-parent with a new-parent title, one parent page is  *)
(* requested, before any child; every child request carries the id the     *)
(* store returned for that parent page.                                    *)
(***************************************************************************)
C8_ChildrenUnderNewParent ==
  (payload.pageOrganization = "create-parent" /\ payload.newParentTitle # "") =>
    /\ Len(ParentRequests) <= 1
    /\ ChildRequests # <<>> =>
         /\ Len(ParentRequests) = 1
         /\ requests[1].kind = "parent"
         /\ requests[1].outcome = "ok"
         /\ requests[1].id # NoId
         /\ requests[1].id # payload.parentPageId
         /\ Cardinality({k \in 1..Len(storePages) :
                           storePages[k].id = requests[1].id}) = 1
         /\ \A k \in 1..Len(ChildRequests) :
              ChildRequests[k].parentId = requests[1].id
    /\ Reported => Len(ParentRequests) = 1

\* children were requested although the payload also named a parent page
C8_Witness ==
  /\ payload.pageOrganization = "create-parent"
  /\ payload.newParentTitle # ""
  /\ payload.parentPageId = CallerParentId
  /\ Len(ChildRequests) >= 2

(***************************************************************************)
(* C9.  In mode create-as-parent no create request carries a parentId; in  *)
(* mode create-child every create request carries the parent page id of    *)
(* the payload.                                                            *)
(***************************************************************************)
C9_ParentIdByMode ==
  /\ payload.pageOrganization = "create-as-parent" =>
       \A k \in 1..Len(requests) : requests[k].parentId = NoId
  /\ payload.pageOrganization = "create-child" =>
       \A k \in 1..Len(requests) :
         /\ requests[k].kind = "child"
         /\ requests[k].parentId = payload.parentPageId

\* a top-level run whose payload still holds a parent id and a parent title
C9_Witness ==
  /\ payload.pageOrganization = "create-as-parent"
  /\ payload.parentPageId = CallerParentId
  /\ payload.newParentTitle # ""
  /\ Len(ChildRequests) >= 1
  /\ storePages # <<>>

limit == 250
PAGE_LIMIT == 5000

\* the k-th space of the store
StoreSpace(k) ==
  [key |-> "K" \o ToString(k), name |-> "Space " \o ToString(k),
   type |-> "global", status |-> "current", id |-> "s" \o ToString(k)]

\* what one page of a space's document list can look like
\*   full      a full page of ordinary documents, more to come
\*   mixed     a document titled like the space key and two ordinary ones,
\*             more to come
\*   last      the home document (titled like the space name), a document
\*             titled like the space key and two ordinary ones; the end
\*   homeNext  only the home document, more to come
\*   emptyNext no document, yet a next link
\*   emptyLast no document, no next link
NextShapes == {"full", "mixed", "homeNext", "emptyNext"}

\* a space with more documents than the crawl may collect
BigSpace == [k \in 1..(PAGE_LIMIT \div limit + 1) |-> "full"] \o <<"last">>

\* the page lists a space of the store can have
Layouts ==
  {<<"last">>, <<"mixed", "last">>, <<"homeNext", "last">>, <<"emptyNext">>,
   BigSpace}

\* the page of the list the store serves for offset st
ShapeAt(layout, st) ==
  LET p == st \div limit + 1
  IN IF p <= Len(layout) THEN layout[p]
     ELSE IF layout[Len(layout)] \in NextShapes THEN layout[Len(layout)]
     ELSE "emptyLast"

HomeDoc(sp) == [id |-> sp.key \o "/home", title |-> sp.name, n |-> 1]
KeyDoc(sp) == [id |-> sp.key \o "/key", title |-> sp.key, n |-> 1]
Docs(sp, k) == [id |-> sp.key \o "/doc", title |-> "Doc", n |-> k]

\* pagesData.results of a page of that shape
Results(shape, sp) ==
  CASE shape = "full" -> <<Docs(sp, limit)>>
    [] shape = "mixed" -> <<KeyDoc(sp), Docs(sp, 2)>>
    [] shape = "last" -> <<HomeDoc(sp), KeyDoc(sp), Docs(sp, 2)>>
    [] shape = "homeNext" -> <<HomeDoc(sp)>>
    [] OTHER -> <<>>

\* pagesData._links.next of a page of that shape
HasNext(shape) == shape \in NextShapes

\* array.length of a run-length encoded list
RECURSIVE Size(_)
Size(list) == IF list = <<>> THEN 0 ELSE list[1].n + Size(Tail(list))

\* a.concat(b), kept run-length encoded
Concat(a, b) ==
  IF a = <<>> THEN b
  ELSE IF b = <<>> THEN a
  ELSE IF [a[Len(a)] EXCEPT !.n = 0] = [b[1] EXCEPT !.n = 0]
  THEN SubSeq(a, 1, Len(a) - 1)
       \o <<[a[Len(a)] EXCEPT !.n = a[Len(a)].n + b[1].n]>>
       \o Tail(b)
  ELSE a \o b

\* only the space name is compared
KeepsPageNameOnly(page, space) == page.title # space.name

\* .filter(page => page.title !== space.name && page.title !== space.key)
KeepsPage(page, space) == page.title # space.name /\ page.title # space.key

\* .map(page => ({id, title, spaceKey, spaceName, lastModified}))
MapPage(page, space) ==
  [id |-> page.id, title |-> page.title, spaceKey |-> space.key,
   spaceName |-> space.name, lastModified |-> "Unknown", n |-> page.n]

\* newPages
NewPages(results, space) ==
  LET kept == SelectSeq(results, LAMBDA pg : KeepsPage(pg, space))
  IN [k \in 1..Len(kept) |-> MapPage(kept[k], space)]

\* only the next link is looked at
GoesOnWhileNext(next, count) == next

\* `if (_links.next && new.length > 0) ... else more = false`, then
\* `if (new.length === 0) more = false`
GoesOn(next, count) == (next /\ count > 0) /\ ~(count = 0)

\* `if (allPages.length >= PAGE_LIMIT) break`
LimitReached(all) == Size(all) >= PAGE_LIMIT

\* the documents old are all in new, unchanged and at their place
Extends(new, old) ==
  /\ Len(new) >= Len(old)
  /\ SubSeq(new, 1, Len(old)) = old

\* a request of the run failed after an earlier request created a document
FailedAfterCreate ==
  \E k, l \in 1..Len(requests) :
     /\ k < l
     /\ requests[k].outcome = "ok"
     /\ requests[l].outcome \in {"fail", "throw"}

\* C11: no step of a bulk run deletes or changes a document of the store:
\* the documents of the store before a step are still there after it
C11_NoRollback == [][Extends(storePages', storePages)]_vars

\* a request failed after a document was created, the run is over and the
\* document is still in the store
C11_Witness ==
  /\ pc = "done"
  /\ FailedAfterCreate
  /\ \E k \in 1..Len(requests), j \in 1..Len(storePages) :
        requests[k].outcome = "ok" /\ storePages[j].id = requests[k].id

\* C12: every child request carries the content of the stored template as
\* its body, the title of its position and a resolved space id
C12_ChildRequestContent ==
  \A k \in 1..Len(requests) :
    requests[k].kind = "child" =>
      /\ requests[k].body = storage[TemplateKey].content
      /\ requests[k].title = titlesToCreate[requests[k].index + 1]
      /\ requests[k].spaceId = numericSpaceId
      /\ requests[k].spaceId # NoId

\* positions (1-based) of the submitted titles that are not blank
NonBlankAt(ts) == {i \in 1..Len(ts) : Trim(ts[i]) # ""}

\* the n-th (0-based) non-blank title of the submitted list
NthNonBlank(ts, n) ==
  ts[CHOOSE i \in NonBlankAt(ts) :
       Cardinality({j \in NonBlankAt(ts) : j < i}) = n]

\* C35: in bulkGeneratePagesWithProgress with a pageTitles array, every
\* child request and every error record is for a non-blank submitted title,
\* its index being the position among the non-blank titles; a report's
\* totalRequested is the number of non-blank titles; and with only blank
\* titles the run fails with no request and no document, whatever pageTitle
C35_BlankTitlesDropped ==
  (variant = "progress" /\ Len(payload.pageTitles) > 0) =>
    LET ts == payload.pageTitles
        n == Cardinality(NonBlankAt(ts))
    IN /\ \A k \in 1..Len(requests) :
            requests[k].kind = "child" =>
              /\ requests[k].index \in 0..(n - 1)
              /\ requests[k].title = NthNonBlank(ts, requests[k].index)
       /\ Len(ChildRequests) <= n
       /\ \A k \in 1..Len(errors) :
            /\ errors[k].index \in 0..(n - 1)
            /\ errors[k].title = NthNonBlank(ts, errors[k].index)
       /\ Reported => result.data.totalRequested = n
       /\ (n = 0 /\ pc \notin {"load", "loadFailed", "start"}) =>
            /\ pc = "done"
            /\ result.kind = "thrown"
            /\ (payload.templateId # "" /\ payload.spaceKey # "") =>
                 result.error = "No valid page titles provided"
            /\ requests = <<>>
            /\ storePages = <<>>

\* a report over <<blank, "T2", "T3">>: two titles requested, the create of
\* "T3" answered non-2xx and recorded with index 1
C35_Witness ==
  /\ variant = "progress"
  /\ payload.pageTitles = <<Blank, TitleAt(2), TitleAt(3)>>
  /\ Reported
  /\ result.data.totalRequested = 2
  /\ Len(requests) >= 2
  /\ \E k \in 1..Len(result.data.errors) :
        /\ result.data.errors[k].index = 1
        /\ result.data.errors[k].title = TitleAt(3)

(***************************************************************************)
(* The requests of the crawl.                                              *)
(***************************************************************************)
\* a list request; collected is the number of documents gathered so far,
\* those of the space being paged included
ListRequest(kind, i, st, collected) ==
  [kind |-> kind, space |-> i, start |-> st, collected |-> collected,
   outcome |-> "pending", next |-> FALSE, count |-> 0, got |-> 0]

\* the last request of the log with its answer: the next link, the number
\* of results and the number of entries the crawl kept
LogAnswer(lg, o, next, count, got) ==
  [lg EXCEPT ![Len(lg)] =
     [@ EXCEPT !.outcome = o, !.next = next, !.count = count, !.got = got]]

\* the return statement after the loops
CrawlReturned(all, sps) ==
  [kind |-> "returned", pages |-> all, spaces |-> sps, error |-> "",
   totalCount |-> Size(all), loadedSpaces |-> Len(sps)]

\* the return statement of the outer catch block
CrawlFailed(msg) ==
  [kind |-> "returned", pages |-> <<>>, spaces |-> <<>>, error |-> msg,
   totalCount |-> 0, loadedSpaces |-> 0]

CrawlOverflow ==
  [kind |-> "thrown", pages |-> <<>>, spaces |-> <<>>,
   error |-> "Maximum call stack size exceeded",
   totalCount |-> 0, loadedSpaces |-> 0]

\* the outer catch block: the error is logged, then a result is returned
CrawlCatch(msg) ==
  /\ cresult' = IF logErrorReturns(variant) THEN CrawlFailed(msg) ELSE CrawlOverflow
  /\ cpc' = "done"

\* head of `for (const space of spaces)` for the i-th space, with allPages
\* = all and the log lg; the first page of the space is requested
ForLoop(i, all, sps, lg) ==
  /\ allPages' = all
  /\ spaceIdx' = i
  /\ IF i > Len(sps) \/ LimitReached(all)
     THEN /\ cresult' = CrawlReturned(all, sps)
          /\ cpc' = "done"
          /\ crawlLog' = lg
          /\ UNCHANGED <<spacePages, pageStart>>
     ELSE /\ spacePages' = <<>>
          /\ pageStart' = 0
          /\ crawlLog' = Append(lg, ListRequest("pages", i, 0, Size(all)))
          /\ cpc' = "awaitPages"
          /\ UNCHANGED cresult

\* the answers the store may give to the pending list request: at most
\* MaxFailures list requests of a crawl fail
ListOutcomes ==
  IF Cardinality({k \in 1..Len(crawlLog) :
                    crawlLog[k].outcome \in {"fail", "throw"}}) < MaxFailures
  THEN Outcomes
  ELSE {"ok"}

\* the resolver is invoked: the first page of spaces is requested
CrawlStart ==
  /\ cpc = "idle"
  /\ pc = "start"
  /\ spaces' = <<>>
  /\ start' = 0
  /\ crawlLog' = Append(crawlLog, ListRequest("spaces", 0, 0, 0))
  /\ cpc' = "awaitSpaces"
  /\ UNCHANGED <<store, spaceIdx, spacePages, pageStart, allPages, cresult>>
  /\ UNCHANGED <<bulkVars, nonCrawlVars>>

\* GET /wiki/api/v2/spaces answered; the store serves the spaces in order,
\* k at a time
SpacesResponse ==
  /\ cpc = "awaitSpaces"
  /\ \E o \in ListOutcomes :
       IF o = "ok"
       THEN \E k \in 0..(Len(store) - Len(spaces)), nx \in BOOLEAN :
              LET newSpaces == [i \in 1..k |-> StoreSpace(Len(spaces) + i)]
                  lg == LogAnswer(crawlLog, o, nx, k, k)
              IN /\ spaces' = spaces \o newSpaces
                 /\ IF GoesOn(nx, Len(newSpaces))
                    THEN /\ start' = start + limit
                         /\ crawlLog' = Append(lg,
                               ListRequest("spaces", 0, start + limit, 0))
                         /\ UNCHANGED <<cpc, spaceIdx, spacePages, pageStart,
                                        allPages, cresult>>
                    ELSE /\ ForLoop(1, <<>>, spaces \o newSpaces, lg)
                         /\ UNCHANGED start
       ELSE /\ crawlLog' = LogAnswer(crawlLog, o, FALSE, 0, 0)
            /\ CrawlCatch(IF o = "fail" THEN "Spaces API failed: status" ELSE "message")
            /\ UNCHANGED <<spaces, start, spaceIdx, spacePages, pageStart, allPages>>
  /\ UNCHANGED store
  /\ UNCHANGED <<bulkVars, nonCrawlVars>>

\* GET /wiki/api/v2/spaces/{id}/pages answered
PagesResponse ==
  /\ cpc = "awaitPages"
  /\ \E o \in ListOutcomes :
       LET space == spaces[spaceIdx]
           shape == ShapeAt(store[spaceIdx], pageStart)
           results == Results(shape, space)
           newPages == NewPages(results, space)
           collected == Concat(spacePages, newPages)
       IN CASE o = "ok" ->
                 LET lg == LogAnswer(crawlLog, o, HasNext(shape),
                                     Size(results), Size(newPages))
                 IN IF GoesOn(HasNext(shape), Size(newPages))
                       /\ ~LimitReached(allPages)
                    THEN /\ spacePages' = collected
                         /\ pageStart' = pageStart + limit
                         /\ crawlLog' = Append(lg,
                               ListRequest("pages", spaceIdx, pageStart + limit,
                                           Size(allPages) + Size(collected)))
                         /\ UNCHANGED <<cpc, spaceIdx, allPages, cresult>>
                    ELSE ForLoop(spaceIdx + 1, Concat(allPages, collected),
                                 spaces, lg)
            [] o = "fail" ->
                 ForLoop(spaceIdx + 1, Concat(allPages, spacePages), spaces,
                         LogAnswer(crawlLog, o, FALSE, 0, 0))
            [] o = "throw" ->
                 IF logErrorReturns(variant)
                 THEN ForLoop(spaceIdx + 1, allPages, spaces,
                              LogAnswer(crawlLog, o, FALSE, 0, 0))
                 ELSE /\ crawlLog' = LogAnswer(crawlLog, o, FALSE, 0, 0)
                      /\ CrawlCatch("Maximum call stack size exceeded")
                      /\ UNCHANGED <<spaceIdx, spacePages, pageStart, allPages>>
  /\ UNCHANGED <<store, spaces, start>>
  /\ UNCHANGED <<bulkVars, nonCrawlVars>>


CrawlInit ==
  /\ ModuleFresh
  /\ storage = <<>>
  /\ payload = NoPayload
  /\ BulkFresh
  /\ store \in UNION {[1..n -> Layouts] : n \in 0..MaxSpaces}
  /\ cpc = "idle"
  /\ spaces = <<>>
  /\ start = 0
  /\ spaceIdx = 0
  /\ spacePages = <<>>
  /\ pageStart = 0
  /\ allPages = <<>>
  /\ crawlLog = <<>>
  /\ cresult = NoCrawlResult
  /\ CaptureIdle
  /\ TitlesIdle
  /\ LaterIdle

CrawlNext ==
  \/ LoadModule
  \/ CrawlStart
  \/ SpacesResponse
  \/ PagesResponse

SpecCrawl == CrawlInit /\ [][CrawlNext]_vars

CrawlTypeOK ==
  /\ cpc \in {"idle", "awaitSpaces", "awaitPages", "done"}
  /\ Len(spaces) <= Len(store)
  /\ cresult.kind \in {"none", "returned", "thrown"}

(***************************************************************************)
(* Views of a crawl.                                                       *)
(***************************************************************************)
LogIndex == 1..Len(crawlLog)

\* a list request of the given kind got a non-2xx answer or threw
ListFailed(kind) ==
  \E k \in LogIndex : /\ crawlLog[k].kind = kind
                      /\ crawlLog[k].outcome \in {"fail", "throw"}

CrawlDone == cpc = "done"

\* the space a returned document was listed from
ListedFrom(d, i) ==
  LET sp == StoreSpace(i)
  IN d.id \in {HomeDoc(sp).id, KeyDoc(sp).id, Docs(sp, 1).id}

\* C13: no document-list request is issued once the documents collected so
\* far, those of the space being paged included, have reached PAGE_LIMIT
C13_NoPageRequestAtCap ==
  \A k \in LogIndex :
    crawlLog[k].kind = "pages" => crawlLog[k].collected < PAGE_LIMIT

\* C14: a crawl in which the page list of a space failed (non-2xx or thrown)
\* still returns, and has asked for the pages of every space unless the cap
\* was reached
C14_SpaceFailureDoesNotAbort ==
  (CrawlDone /\ ListFailed("pages")) =>
     /\ cresult.kind = "returned"
     /\ cresult.spaces = spaces
     /\ cresult.pages = allPages
     /\ \A i \in 1..Len(spaces) :
          \/ \E k \in LogIndex : crawlLog[k].kind = "pages" /\ crawlLog[k].space = i
          \/ LimitReached(allPages)

\* C15: a returned result of a crawl in which the page list of a space failed
\* carries an error marker
C15_SpaceFailureIsIndicated ==
  (CrawlDone /\ ListFailed("pages") /\ cresult.kind = "returned") =>
     cresult.error # ""

\* C16: a crawl whose space list failed returns (never throws) a result with
\* an error marker and the spaces collected before the failure
C16_CrawlFailureKeepsPartial ==
  (CrawlDone /\ ListFailed("spaces")) =>
     /\ cresult.kind = "returned"
     /\ cresult.error # ""
     /\ cresult.spaces = spaces
     /\ cresult.pages = allPages

\* C17: after an answer without a next link, or with an empty page, the
\* crawl does not ask for a further page of the same list
C17_PaginationStops ==
  \A k \in LogIndex :
    (/\ k < Len(crawlLog)
     /\ crawlLog[k].outcome = "ok"
     /\ (~crawlLog[k].next \/ crawlLog[k].count = 0))
    => ~(/\ crawlLog[k + 1].kind = crawlLog[k].kind
         /\ crawlLog[k + 1].space = crawlLog[k].space)

\* a page list answered with an empty page that still advertised a next
\* link, and the crawl has returned
C17_Witness ==
  /\ CrawlDone
  /\ cresult.kind = "returned"
  /\ \E k \in LogIndex : /\ crawlLog[k].kind = "pages"
                         /\ crawlLog[k].outcome = "ok"
                         /\ crawlLog[k].next
                         /\ crawlLog[k].count = 0

\* C18: every document of the returned result carries the key and the name
\* of the space it was listed from, and its title is neither of them
C18_FilteredAndDenormalised ==
  \A j \in 1..Len(cresult.pages) :
    LET d == cresult.pages[j]
    IN \E i \in 1..Len(store) :
         /\ ListedFrom(d, i)
         /\ d.spaceKey = StoreSpace(i).key
         /\ d.spaceName = StoreSpace(i).name
         /\ d.title # StoreSpace(i).name
         /\ d.title # StoreSpace(i).key

\* a crawl returned documents of two spaces after dropping listed entries
C18_Witness ==
  /\ cresult.kind = "returned"
  /\ \E a, b \in 1..Len(cresult.pages) :
       cresult.pages[a].spaceKey # cresult.pages[b].spaceKey
  /\ \E k \in LogIndex : crawlLog[k].kind = "pages"
                         /\ crawlLog[k].got < crawlLog[k].count

\* C34: in a crawl that returned with no failed request and below the cap,
\* every page of a space that was served with documents and a next link was
\* followed by the request for the next page of that space, also when the
\* filter on the space's name and key dropped all of its documents
C34_FollowsNextLinks ==
  (/\ CrawlDone
   /\ cresult.kind = "returned"
   /\ ~ListFailed("spaces")
   /\ ~ListFailed("pages")
   /\ ~LimitReached(cresult.pages)) =>
     \A k \in LogIndex :
       (/\ crawlLog[k].kind = "pages"
        /\ crawlLog[k].outcome = "ok"
        /\ crawlLog[k].next
        /\ crawlLog[k].count > 0) =>
          \E l \in LogIndex :
             /\ crawlLog[l].kind = "pages"
             /\ crawlLog[l].space = crawlLog[k].space
             /\ crawlLog[l].start = crawlLog[k].start + limit

\* C36: the logging helpers return: loading the module, whose top level
\* calls log, does not fail, and a crawl that came to its end, through a
\* catch block or not, returned a result
C36_LoggingReturns ==
  /\ pc # "loadFailed"
  /\ CrawlDone => cresult.kind = "returned"

(***************************************************************************)
(* uploadTemplate: which document a capture asks for.                      *)
(***************************************************************************)
Digits == {"111", "222"}

\* the pieces of text a url is made of
UrlPieces ==
  {Blank, "/pages/", "edit-v2/", "viewpage.action?pageId=", "?pageId=",
   "&pageId="} \cup Digits

Urls == UNION {[1..n -> UrlPieces] : n \in 0..MaxUrlLen}

\* url.trim() is empty
BlankUrl(url) == \A i \in 1..Len(url) : url[i] = Blank

\* the four patterns: the pieces that (\d+) has to follow, in a row
DirectView == <<{"/pages/"}>>
Editor == <<{"/pages/"}, {"edit-v2/"}>>
LegacyView == <<{"/pages/"}, {"viewpage.action?pageId="}>>
QueryParam == <<{"?pageId=", "&pageId=", "viewpage.action?pageId="}>>

\* the patterns are tried from the last to the first
PatternsReversed == <<QueryParam, LegacyView, Editor, DirectView>>

Patterns == <<DirectView, Editor, LegacyView, QueryParam>>

\* (\d+) at position i: the longest run of digits that starts there
RECURSIVE DigitRun(_, _)
DigitRun(url, i) ==
  IF i > Len(url) \/ url[i] \notin Digits THEN ""
  ELSE url[i] \o DigitRun(url, i + 1)

\* the pattern matches the url at position i
MatchesAt(pattern, url, i) ==
  /\ i + Len(pattern) <= Len(url)
  /\ \A j \in 1..Len(pattern) : url[i + j - 1] \in pattern[j]
  /\ url[i + Len(pattern)] \in Digits

\* url.match(pattern): match[1] of the leftmost match, "" for null
Match(pattern, url) ==
  LET at == {i \in 1..Len(url) : MatchesAt(pattern, url, i)}
  IN IF at = {} THEN ""
     ELSE DigitRun(url, (CHOOSE i \in at : \A j \in at : i <= j) + Len(pattern))

\* the for loop over the patterns from the k-th on: the first match breaks
RECURSIVE FirstMatch(_, _, _)
FirstMatch(url, id, k) ==
  IF k > Len(Patterns) THEN id
  ELSE IF Match(Patterns[k], url) # "" THEN Match(Patterns[k], url)
  ELSE FirstMatch(url, id, k + 1)

\* finalPageId before the fetch
ResolvePageId(p) ==
  IF p.pageId # NoId THEN p.pageId
  ELSE IF p.url # <<>> /\ ~BlankUrl(p.url) THEN FirstMatch(p.url, p.pageId, 1)
  ELSE p.pageId

\* the error of a capture without a page id
NoIdError(p) ==
  IF p.url # <<>>
  THEN "Could not extract page ID from URL. Please use a direct Confluence page URL."
  ELSE "Page ID or URL is required"

\* `user_${Date.now()}_${Math.random()...}`: the ids a capture can generate;
\* "t1" is the id of the template the store may already hold
TemplateIds == {"user_1", "t1"}

\* `template_${templateId}`
CapturedKey(id) == "template_" \o id

\* storage.set that forgets the other keys
SetAlone(s, key, value) == key :> value

\* storage.set(key, value)
Set(s, key, value) ==
  [k \in DOMAIN s \cup {key} |-> IF k = key THEN value ELSE s[k]]
FetchedTitle == "Source page"

\* finalTemplateName
TemplateName(p) == IF p.name # "" /\ Trim(p.name) # "" THEN Trim(p.name) ELSE FetchedTitle

CapturePayloads == [pageId : {NoId, "77"}, url : Urls, name : {"", "My"}]

\* the catch block of uploadTemplate
CaptureCatch(msg) ==
  /\ uresult' = IF logErrorReturns(variant)
                THEN [kind |-> "returned", success |-> FALSE, error |-> msg]
                ELSE [kind |-> "thrown", success |-> FALSE,
                      error |-> "Maximum call stack size exceeded"]
  /\ upc' = "done"

\* the resolver is invoked: the page id is resolved and the page is asked for
CaptureStart ==
  /\ upc = "idle"
  /\ pc = "start"
  /\ finalPageId' = ResolvePageId(upayload)
  /\ IF ResolvePageId(upayload) = NoId
     THEN /\ uresult' = [kind |-> "returned", success |-> FALSE,
                         error |-> NoIdError(upayload)]
          /\ upc' = "done"
          /\ UNCHANGED fetches
     ELSE /\ fetches' = Append(fetches, ResolvePageId(upayload))
          /\ upc' = "awaitPage"
          /\ UNCHANGED uresult
  /\ UNCHANGED <<upayload, templateId>>
  /\ UNCHANGED <<bulkVars, nonCaptureVars>>

\* GET /wiki/api/v2/pages/{finalPageId}?body-format=storage answered
PageResponse ==
  /\ upc = "awaitPage"
  /\ \E o \in Outcomes :
       IF o = "ok"
       THEN /\ upc' = "awaitStore"
            /\ UNCHANGED uresult
       ELSE CaptureCatch(IF o = "fail" THEN "Failed to fetch page content" ELSE "message")
  /\ UNCHANGED <<upayload, finalPageId, fetches, templateId>>
  /\ UNCHANGED <<bulkVars, nonCaptureVars>>

\* storage.set of the new template is over
TemplateStored ==
  /\ upc = "awaitStore"
  /\ \E o \in {"ok", "throw"}, id \in TemplateIds :
       /\ templateId' = id
       /\ IF o = "ok"
          THEN /\ storage' = Set(storage, CapturedKey(id),
                                 [name |-> TemplateName(upayload),
                                  content |-> TemplateContent])
               /\ uresult' = [kind |-> "returned", success |-> TRUE, error |-> ""]
               /\ upc' = "done"
          ELSE /\ CaptureCatch("message")
               /\ UNCHANGED storage
  /\ UNCHANGED <<upayload, finalPageId, fetches>>
  /\ UNCHANGED <<variant, isProduction, payload, pc, titlesToCreate,
                 templateData, spaceLookup, numericSpaceId, actualParentPageId,
                 batches, batchIndex, itemIndex, batchResults, createdPages,
                 errors, requests, storePages, result>>
  /\ UNCHANGED nonCaptureVars

CaptureInit ==
  /\ ModuleFresh
  /\ storage = <<>>
  /\ payload = NoPayload
  /\ BulkFresh
  /\ CrawlIdle
  /\ TitlesIdle
  /\ upayload \in CapturePayloads
  /\ upc = "idle"
  /\ finalPageId = NoId
  /\ fetches = <<>>
  /\ templateId = ""
  /\ uresult = NoCaptureResult
  /\ LaterIdle

CaptureNext ==
  \/ LoadModule
  \/ CaptureStart
  \/ PageResponse
  \/ TemplateStored

SpecCapture == CaptureInit /\ [][CaptureNext]_vars

CaptureTypeOK ==
  /\ upc \in {"idle", "awaitPage", "awaitStore", "done"}
  /\ Len(fetches) <= 1
  /\ uresult.kind \in {"none", "returned", "thrown"}

\* the capture got past the resolution of its reference
Resolved == upc # "idle"

\* the id the claimed order gives: the first of direct view, editor, legacy
\* view and bare query parameter that matches
IdInClaimedOrder(url) ==
  IF Match(DirectView, url) # "" THEN Match(DirectView, url)
  ELSE IF Match(Editor, url) # "" THEN Match(Editor, url)
  ELSE IF Match(LegacyView, url) # "" THEN Match(LegacyView, url)
  ELSE Match(QueryParam, url)

\* C19: a given pageId is the document asked for whatever the url; without
\* one, the first pattern that matches, in the order direct view, editor,
\* legacy view, query parameter, supplies the id; without any id the capture
\* returns an error result and asks for no document
C19_ReferenceResolution ==
  Resolved =>
    LET want == IF upayload.pageId # NoId THEN upayload.pageId
                ELSE IdInClaimedOrder(upayload.url)
    IN IF want # NoId
       THEN fetches = <<want>>
       ELSE /\ fetches = <<>>
            /\ uresult.kind = "returned"
            /\ ~uresult.success
            /\ uresult.error # ""

\* a url that two patterns match with different ids was resolved and the
\* document of the first pattern was asked for
C19_Witness ==
  /\ upayload.pageId = NoId
  /\ Match(DirectView, upayload.url) # ""
  /\ Match(QueryParam, upayload.url) # ""
  /\ Match(DirectView, upayload.url) # Match(QueryParam, upayload.url)
  /\ fetches = <<Match(DirectView, upayload.url)>>

(***************************************************************************)
(* bulkGeneratePages of src/src/index.js: the titles of a run.             *)
(***************************************************************************)
monthNames ==
  <<"January", "February", "March", "April", "May", "June", "July",
    "August", "September", "October", "November", "December">>

\* array.indexOf(x): the 0-based position, -1 if x is not in the array
IndexOf(array, x) ==
  IF \E k \in 1..Len(array) : array[k] = x
  THEN (CHOOSE k \in 1..Len(array) : array[k] = x) - 1
  ELSE -1

\* array[i] in a template string: "undefined" outside the array
ElementText(array, i) ==
  IF i >= 0 /\ i < Len(array) THEN array[i + 1] ELSE "undefined"

\* a % b of JavaScript for b > 0: the sign of the result is that of a
Rem(a, b) == IF a >= 0 THEN a % b ELSE -((-a) % b)

\* Math.floor(a / b) for b > 0
FloorDiv(a, b) == a \div b

\* the quarters are mapped to their numbers, not to their first months
quarterMapByNumber(q) ==
  CASE q = "Q1" -> 1 [] q = "Q2" -> 2 [] q = "Q3" -> 3 [] q = "Q4" -> 4

quarterMap(q) ==
  CASE q = "Q1" -> 0 [] q = "Q2" -> 3 [] q = "Q3" -> 6 [] q = "Q4" -> 9

\* the year of a monthly title does not move with the months
MonthlyYearFixed(year, monthIndex, index) == year

\* targetYear of a monthly title
MonthlyYear(year, monthIndex, index) ==
  year + FloorDiv(monthIndex + index, 12)

\* targetMonth of a monthly title
MonthlyMonth(monthIndex, index) == Rem(monthIndex + index, 12)

(***************************************************************************)
(* The Date object, as far as the weekly titles use it: a local calendar   *)
(* date, month 0-based.                                                    *)
(***************************************************************************)
IsLeap(y) == (y % 4 = 0 /\ y % 100 # 0) \/ y % 400 = 0

DaysInMonth(y, m) ==
  IF m = 1 THEN (IF IsLeap(y) THEN 29 ELSE 28)
  ELSE IF m \in {3, 5, 8, 10} THEN 30
  ELSE 31

\* new Date(y, m, d), and setDate(d) on a date of month m of year y: a month
\* outside 0..11 and a day outside the month carry over
RECURSIVE Date(_, _, _)
Date(y, m, d) ==
  IF m < 0 THEN Date(y - 1, m + 12, d)
  ELSE IF m > 11 THEN Date(y + 1, m - 12, d)
  ELSE IF d < 1
       THEN LET py == IF m = 0 THEN y - 1 ELSE y
                pm == IF m = 0 THEN 11 ELSE m - 1
            IN Date(py, pm, d + DaysInMonth(py, pm))
  ELSE IF d > DaysInMonth(y, m) THEN Date(y, m + 1, d - DaysInMonth(y, m))
  ELSE [year |-> y, month |-> m, day |-> d]

\* the day of the month is set as it is given
setDateAsGiven(date, d) == [date EXCEPT !.day = d]

\* date.setDate(d)
setDate(date, d) == Date(date.year, date.month, d)

\* parseInt(weeklyStartDay) || 16
StartDay(d) == IF d = 0 THEN 16 ELSE d

\* toLocaleDateString('en-US', {year: 'numeric', month: 'long', day: 'numeric'})
toLocaleDateString(date) ==
  ElementText(monthNames, date.month) \o " " \o ToString(date.day)
    \o ", " \o ToString(date.year)

generatePageTitle(p, index) ==
  CASE p.generationMode = "single" -> p.pageTitle
    [] p.generationMode = "numbered" ->
         p.pageTitle \o " (" \o ToString(index + 1) \o ")"
    [] p.generationMode = "weekly" ->
         LET monthIndex == IndexOf(monthNames, p.weeklyStartMonth)
             startDate == Date(p.weeklyStartYear, monthIndex,
                               StartDay(p.weeklyStartDay))
             targetDate == setDate(startDate, startDate.day + index * 7)
         IN p.pageTitle \o " - Week of " \o toLocaleDateString(targetDate)
    [] p.generationMode = "monthly" ->
         LET monthIndex == IndexOf(monthNames, p.monthlyTargetMonth)
         IN p.pageTitle \o " - "
              \o ElementText(monthNames, MonthlyMonth(monthIndex, index))
              \o " "
              \o ToString(MonthlyYear(p.monthlyTargetYear, monthIndex, index))
    [] p.generationMode = "quarterly" ->
         LET startQuarterMonth == quarterMap(p.quarterlyStartQuarter)
             monthsOffset == index * 3
             targetMonth == Rem(startQuarterMonth + monthsOffset, 12)
             yearsOffset == FloorDiv(startQuarterMonth + monthsOffset, 12)
             quarterNum == FloorDiv(targetMonth, 3) + 1
         IN p.pageTitle \o " - Q" \o ToString(quarterNum) \o " "
              \o ToString(p.quarterlyTargetYear + yearsOffset)
    [] OTHER -> p.pageTitle

\* every mode makes one page
PageCountOne(p) == 1

\* pageCount of the mode
PageCountOf(p) ==
  CASE p.generationMode = "numbered" -> p.numberedCount
    [] p.generationMode = "weekly" -> p.weeklyCount
    [] p.generationMode = "monthly" -> p.monthlyCount
    [] p.generationMode = "quarterly" -> p.quarterlyCount
    [] OTHER -> 1

Counts == 1..MaxCount
Years == {2025, 2026}
PageTitles == {"", "Report"}
LeapYears == {2024}
StartDays == {0, 1, 16} \cup 28..31
StartMonths == {monthNames[k] : k \in 1..Len(monthNames)} \cup {"Smarch"}

\* the title parameters a caller may send; the parameters of the other
\* modes are left out of the payload
TitleParams ==
  {[NoParams EXCEPT !.pageTitle = t] : t \in PageTitles}
  \cup {[NoParams EXCEPT !.generationMode = "numbered", !.pageTitle = t,
                         !.numberedCount = n] : t \in PageTitles, n \in Counts}
  \cup {[NoParams EXCEPT !.generationMode = "monthly", !.pageTitle = t,
                         !.monthlyTargetMonth = mo, !.monthlyTargetYear = y,
                         !.monthlyCount = n] :
          t \in PageTitles, n \in Counts, y \in Years,
          mo \in StartMonths}
  \cup {[NoParams EXCEPT !.generationMode = "weekly", !.pageTitle = t,
                         !.weeklyStartMonth = mo, !.weeklyStartDay = d,
                         !.weeklyStartYear = y, !.weeklyCount = n] :
          t \in PageTitles, n \in Counts, y \in Years \cup LeapYears,
          d \in StartDays, mo \in StartMonths}
  \cup {[NoParams EXCEPT !.generationMode = "quarterly", !.pageTitle = t,
                         !.quarterlyStartQuarter = q, !.quarterlyTargetYear = y,
                         !.quarterlyCount = n] :
          t \in PageTitles, n \in Counts, y \in Years,
          q \in {"Q1", "Q2", "Q3", "Q4"}}

\* the resolver is invoked; the steps before the loop (validation, template,
\* space, parent page) end the run or let it into the loop
TitleRunStart ==
  /\ gpc = "idle"
  /\ \E passed \in BOOLEAN :
       IF gparams.pageTitle = "" \/ ~passed
       THEN /\ gpc' = "failed"
            /\ UNCHANGED <<pageCount, gi>>
       ELSE /\ pageCount' = PageCountOf(gparams)
            /\ gi' = 0
            /\ gpc' = "loop"
  /\ UNCHANGED <<gparams, attempts>>
  /\ UNCHANGED <<bulkVars, nonTitleVars>>

\* one pass of the loop up to the await: the title of position i is
\* generated and its page is requested
TitleIssue ==
  /\ gpc = "loop"
  /\ gi < pageCount
  /\ attempts' = Append(attempts,
        [title |-> generatePageTitle(gparams, gi), index |-> gi,
         outcome |-> "pending"])
  /\ gpc' = "await"
  /\ UNCHANGED <<gparams, pageCount, gi>>
  /\ UNCHANGED <<bulkVars, nonTitleVars>>

\* after a request that did not create its page the same position is tried
\* again
TitleResponseRetry ==
  /\ gpc = "await"
  /\ \E o \in Outcomes :
       /\ attempts' = [attempts EXCEPT ![Len(attempts)].outcome = o]
       /\ gi' = IF o = "ok" THEN gi + 1 ELSE gi
  /\ gpc' = "loop"
  /\ UNCHANGED <<gparams, pageCount>>
  /\ UNCHANGED <<bulkVars, nonTitleVars>>

\* the request is answered; created, rejected or thrown, the loop goes on
TitleResponse ==
  /\ gpc = "await"
  /\ \E o \in Outcomes :
       attempts' = [attempts EXCEPT ![Len(attempts)].outcome = o]
  /\ gi' = gi + 1
  /\ gpc' = "loop"
  /\ UNCHANGED <<gparams, pageCount>>
  /\ UNCHANGED <<bulkVars, nonTitleVars>>

\* the loop is over and the report is returned
TitleReturn ==
  /\ gpc = "loop"
  /\ gi >= pageCount
  /\ gpc' = "done"
  /\ UNCHANGED <<gparams, pageCount, gi, attempts>>
  /\ UNCHANGED <<bulkVars, nonTitleVars>>

TitleInit ==
  /\ variant = "legacy"
  /\ isProduction = TRUE
  /\ pc = "load"
  /\ storage = <<>>
  /\ payload = NoPayload
  /\ BulkFresh
  /\ CrawlIdle
  /\ CaptureIdle
  /\ gparams \in TitleParams
  /\ gpc = "idle"
  /\ pageCount = 0
  /\ gi = 0
  /\ attempts = <<>>
  /\ LaterIdle

TitleNext ==
  \/ TitleRunStart
  \/ TitleIssue
  \/ TitleResponse
  \/ TitleReturn

SpecTitles == TitleInit /\ [][TitleNext]_vars

TitleTypeOK ==
  /\ gpc \in {"idle", "failed", "loop", "await", "done"}
  /\ Len(attempts) <= MaxCount
  /\ gi <= pageCount

\* the start month of a monthly run is one of the twelve month names
KnownMonth == IndexOf(monthNames, gparams.monthlyTargetMonth) \in 0..11

\* C20: in a monthly run that starts at month index m of year y, the title
\* of position i names month (m+i) mod 12 and year y + floor((m+i)/12)
C20_MonthlyTitles ==
  (gparams.generationMode = "monthly" /\ KnownMonth) =>
    \A k \in 1..Len(attempts) :
      LET m == IndexOf(monthNames, gparams.monthlyTargetMonth)
          i == k - 1
      IN /\ attempts[k].index = i
         /\ attempts[k].title =
              gparams.pageTitle \o " - " \o monthNames[((m + i) % 12) + 1]
                \o " " \o ToString(gparams.monthlyTargetYear + ((m + i) \div 12))

\* the run of four months from November 2025 has rolled over into 2026
C20_Witness ==
  /\ gpc = "done"
  /\ gparams.generationMode = "monthly"
  /\ [k \in 1..Len(attempts) |-> attempts[k].title] =
        <<"Report - November 2025", "Report - December 2025",
          "Report - January 2026", "Report - February 2026">>

\* the titles of the attempts, in the order of the requests
AttemptedTitles == [k \in 1..Len(attempts) |-> attempts[k].title]

\* the run is over
TitlesDone == gpc = "done"

\* C21: in a quarterly run that starts at quarter Qk of year y, with
\* totalMonths = 3*(k-1) + 3*i the title of position i names quarter
\* floor((totalMonths mod 12)/3)+1 and year y + floor(totalMonths/12)
C21_QuarterlyTitles ==
  gparams.generationMode = "quarterly" =>
    \A n \in 1..Len(attempts) :
      LET k == CHOOSE q \in 1..4 : gparams.quarterlyStartQuarter = "Q" \o ToString(q)
          i == n - 1
          totalMonths == 3 * (k - 1) + 3 * i
      IN /\ attempts[n].index = i
         /\ attempts[n].title =
              gparams.pageTitle \o " - Q"
                \o ToString(((totalMonths % 12) \div 3) + 1) \o " "
                \o ToString(gparams.quarterlyTargetYear + (totalMonths \div 12))

\* the run of three quarters from Q4 2025 has rolled over into 2026
C21_Witness ==
  /\ TitlesDone
  /\ gparams.generationMode = "quarterly"
  /\ AttemptedTitles =
        <<"Report - Q4 2025", "Report - Q1 2026", "Report - Q2 2026">>

\* C22: a numbered run of n titles with base b attempts "b (1)" .. "b (n)"
\* in that order; a single run attempts b itself and nothing else
C22_NumberedAndSingle ==
  /\ gparams.generationMode = "numbered" =>
       /\ \A k \in 1..Len(attempts) :
            attempts[k].title = gparams.pageTitle \o " (" \o ToString(k) \o ")"
       /\ Len(attempts) <= gparams.numberedCount
       /\ TitlesDone => Len(attempts) = gparams.numberedCount
  /\ gparams.generationMode = "single" =>
       /\ \A k \in 1..Len(attempts) : attempts[k].title = gparams.pageTitle
       /\ Len(attempts) <= 1
       /\ TitlesDone => Len(attempts) = 1

\* a numbered run of three titles is over
C22_Witness ==
  /\ TitlesDone
  /\ gparams.generationMode = "numbered"
  /\ AttemptedTitles = <<"Report (1)", "Report (2)", "Report (3)">>

\* the leap years before year y
LeapsBefore(y) == (y - 1) \div 4 - (y - 1) \div 100 + (y - 1) \div 400

\* the days of a common year before the first of each month
CommonYearDaysBefore == <<0, 31, 59, 90, 120, 151, 181, 212, 243, 273, 304, 334>>

\* the number of the day before the first of month m (0..11) of year y
DaysBefore(y, m) ==
  365 * y + LeapsBefore(y) + CommonYearDaysBefore[m + 1]
    + (IF m > 1 /\ IsLeap(y) THEN 1 ELSE 0)

\* the number of the d-th day counted from the first of month m of year y;
\* a d beyond the end of the month counts on into the next months
DayNumber(y, m, d) == DaysBefore(y, m) + d

\* the start of a weekly run is a month of the list and a day number from 1
KnownStart ==
  /\ IndexOf(monthNames, gparams.weeklyStartMonth) \in 0..11
  /\ gparams.weeklyStartDay >= 1

\* the title of a weekly run for the calendar day (y, m, d)
WeekTitle(y, m, d) ==
  gparams.pageTitle \o " - Week of " \o monthNames[m + 1] \o " "
    \o ToString(d) \o ", " \o ToString(y)

\* the title names the calendar day with number n, a day that exists
NamesDay(title, n) ==
  \E y \in {gparams.weeklyStartYear, gparams.weeklyStartYear + 1}, m \in 0..11 :
    LET d == n - DaysBefore(y, m)
    IN /\ d \in 1..DaysInMonth(y, m)
       /\ title = WeekTitle(y, m, d)

\* C24: in a weekly run the title of position i names the calendar day
\* 7*i days after the start date, a day that exists in its month
C24_WeeklyTitles ==
  (gparams.generationMode = "weekly" /\ KnownStart) =>
    \A k \in 1..Len(attempts) :
      /\ attempts[k].index = k - 1
      /\ NamesDay(attempts[k].title,
                  DayNumber(gparams.weeklyStartYear,
                            IndexOf(monthNames, gparams.weeklyStartMonth),
                            gparams.weeklyStartDay) + 7 * (k - 1))

\* the run from 28 January 2026 has crossed the end of the month
C24_Witness ==
  /\ gparams.generationMode = "weekly"
  /\ Len(attempts) >= 2
  /\ attempts[1].title = "Report - Week of January 28, 2026"
  /\ attempts[2].title = "Report - Week of February 4, 2026"

\* the parameters of the mode are values the mode knows: a month name of
\* the list, a day number from 1
ValidParams ==
  /\ gparams.generationMode = "monthly" => KnownMonth
  /\ gparams.generationMode = "weekly" => KnownStart

\* the place of the first title of the run in the order of its mode: a
\* number, a month, a quarter or a day
FirstOrdinal ==
  CASE gparams.generationMode = "numbered" -> 1
    [] gparams.generationMode = "monthly" ->
         12 * gparams.monthlyTargetYear
           + IndexOf(monthNames, gparams.monthlyTargetMonth)
    [] gparams.generationMode = "quarterly" ->
         4 * gparams.quarterlyTargetYear
           + (CHOOSE q \in 0..3 :
                gparams.quarterlyStartQuarter = "Q" \o ToString(q + 1))
    [] gparams.generationMode = "weekly" ->
         DayNumber(gparams.weeklyStartYear,
                   IndexOf(monthNames, gparams.weeklyStartMonth),
                   gparams.weeklyStartDay)
    [] OTHER -> 0

\* the distance of two neighbours in the order of the mode
OrdinalStep == IF gparams.generationMode = "weekly" THEN 7 ELSE 1

\* the title is the one of place o in the order of the mode
IsTitleOf(title, o) ==
  CASE gparams.generationMode = "numbered" ->
         title = gparams.pageTitle \o " (" \o ToString(o) \o ")"
    [] gparams.generationMode = "monthly" ->
         title = gparams.pageTitle \o " - " \o monthNames[(o % 12) + 1]
                   \o " " \o ToString(o \div 12)
    [] gparams.generationMode = "quarterly" ->
         title = gparams.pageTitle \o " - Q" \o ToString((o % 4) + 1)
                   \o " " \o ToString(o \div 4)
    [] gparams.generationMode = "weekly" -> NamesDay(title, o)
    [] OTHER -> title = gparams.pageTitle

\* C23: a run of any mode with a count of at least 1 and parameters the mode
\* knows attempts exactly count titles (one in single mode); the k-th title
\* is the one k-1 steps after the first in the order of the mode, and no two
\* titles are equal
C23_CountOrderDistinct ==
  (gpc \in {"loop", "await", "done"} /\ ValidParams) =>
    /\ Len(attempts) <= PageCountOf(gparams)
    /\ TitlesDone => Len(attempts) = PageCountOf(gparams)
    /\ \A k \in 1..Len(attempts) :
         IsTitleOf(attempts[k].title, FirstOrdinal + OrdinalStep * (k - 1))
    /\ \A k, l \in 1..Len(attempts) :
         k # l => attempts[k].title # attempts[l].title

\* a weekly run of at least three titles is over; one of its requests was
\* not answered with a created page
C23_Witness ==
  /\ TitlesDone
  /\ gparams.generationMode = "weekly"
  /\ KnownStart
  /\ Len(attempts) = gparams.weeklyCount
  /\ gparams.weeklyCount >= 3
  /\ \E k \in 1..Len(attempts) : attempts[k].outcome # "ok"


(***************************************************************************)
(* handleDuplicateNames of the UI (BulkPageGenerator.js:540-562), applied  *)
(* to a list of titles and then to its own result.                         *)
(***************************************************************************)
MaxDedupLen == 4

\* the titles a user can enter: plain, with a leading blank, one that looks
\* like a generated suffix, and a blank one
DedupTitles == {"A", " A", "B", "A (1)", " "}

\* String.prototype.trim, character by character
RECURSIVE trimStart(_)
trimStart(s) ==
  IF Len(s) > 0 /\ SubSeq(s, 1, 1) = " " THEN trimStart(SubSeq(s, 2, Len(s))) ELSE s

RECURSIVE trimEnd(_)
trimEnd(s) ==
  IF Len(s) > 0 /\ SubSeq(s, Len(s), Len(s)) = " "
  THEN trimEnd(SubSeq(s, 1, Len(s) - 1)) ELSE s

trim(s) == trimEnd(trimStart(s))

\* `${trimmedTitle} (${count})`
Suffixed(t, count) == t \o " (" \o ToString(count) \o ")"

\* titles.forEach(...) from position i on; seen maps a trimmed title to its
\* count
RECURSIVE forEachTitle(_, _, _, _)
forEachTitle(titles, i, seen, res) ==
  IF i > Len(titles) THEN res
  ELSE LET trimmedTitle == trim(titles[i])
       IN IF trimmedTitle = ""
          THEN forEachTitle(titles, i + 1, seen, Append(res, ""))
          ELSE IF trimmedTitle \notin DOMAIN seen
          THEN forEachTitle(titles, i + 1, seen @@ (trimmedTitle :> 1),
                            Append(res, trimmedTitle))
          ELSE forEachTitle(titles, i + 1,
                            [seen EXCEPT ![trimmedTitle] = @ + 1],
                            Append(res, Suffixed(trimmedTitle, seen[trimmedTitle])))

handleDuplicateNames(titles) == forEachTitle(titles, 1, <<>>, <<>>)

DedupInputs == UNION { [1..n -> DedupTitles] : n \in 0..MaxDedupLen }

DedupApply ==
  /\ dpc = "idle"
  /\ dresult' = handleDuplicateNames(dtitles)
  /\ dpc' = "once"
  /\ UNCHANGED <<dtitles, dagain>>
  /\ UNCHANGED nonDedupVars

DedupReapply ==
  /\ dpc = "once"
  /\ dagain' = handleDuplicateNames(dresult)
  /\ dpc' = "twice"
  /\ UNCHANGED <<dtitles, dresult>>
  /\ UNCHANGED nonDedupVars

\* the resolvers are at rest
ResolversIdle ==
  /\ variant = "legacy"
  /\ isProduction = TRUE
  /\ pc = "load"
  /\ storage = <<>>
  /\ payload = NoPayload
  /\ BulkFresh
  /\ CrawlIdle
  /\ CaptureIdle
  /\ TitlesIdle

DedupInit ==
  /\ ResolversIdle
  /\ FlowIdle
  /\ CacheIdle
  /\ BatchIdle
  /\ dtitles \in DedupInputs
  /\ dpc = "idle"
  /\ dresult = <<>>
  /\ dagain = <<>>

DedupNext ==
  \/ DedupApply
  \/ DedupReapply

SpecDedup == DedupInit /\ [][DedupNext]_vars

\* every title of the list has a visible character
NonBlank(titles) == \A i \in 1..Len(titles) : trim(titles[i]) # ""

\* position i holds the first occurrence of its title (up to surrounding
\* blanks)
FirstOccurrence(titles, i) ==
  \A j \in 1..(i - 1) : trim(titles[j]) # trim(titles[i])

PairwiseDistinct(titles) ==
  \A i, j \in 1..Len(titles) : i # j => titles[i] # titles[j]

\* C25: for a list of non-blank titles the result of handleDuplicateNames
\* has the length of the list, holds the first occurrence of every title as
\* entered (up to surrounding blanks) and has no title twice
C25_DedupDistinct ==
  (dpc # "idle" /\ NonBlank(dtitles)) =>
     /\ Len(dresult) = Len(dtitles)
     /\ \A i \in 1..Len(dtitles) :
          FirstOccurrence(dtitles, i) => dresult[i] = trim(dtitles[i])
     /\ PairwiseDistinct(dresult)

\* C26: applying handleDuplicateNames to its own result changes nothing
C26_DedupIdempotent ==
  dpc = "twice" => dagain = dresult

(***************************************************************************)
(* The step flow of the UI component BulkPageCloner                        *)
(* (BulkPageGenerator.js): 1 select template, 2 bulk titles, 3 location,   *)
(* 4 complete.  Every click handler is one action; a handler that awaits   *)
(* an invoke is split at the await.                                        *)
(***************************************************************************)
MaxRuns == 1

\* what a user types into a title field
FlowTitles == {"", "A"}
SpaceKeys == {"", "SK"}
ParentPages == {"", CallerParentId}
ParentTitles == {"", "NP"}
UiOrganizations == {"create-child", "create-as-parent", "create-parent"}

\* pageTitles.filter(t => t.trim())
nonEmptyTitles(titles) == SelectSeq(titles, LAMBDA t : trim(t) # "")

\* Step 1: a page of the list is clicked, up to `await invoke('uploadTemplate')`
handlePageSelect ==
  /\ currentStep = 1
  /\ ~upload
  /\ upload' = TRUE
  /\ uiError' = FALSE
  /\ UNCHANGED <<currentStep, selectedTemplate, uiPageCount, uiPageTitles,
                 selectedSpace, pageOrganization, selectedParentPage,
                 newParentTitle, generating, generationSuccess, invocation,
                 started, returned, templateStore, pageWrites>>
  /\ UNCHANGED nonFlowVars

\* Step 1: a page URL is loaded; in direct mode the page is uploaded as the
\* template
handleUrlLoad ==
  /\ currentStep = 1
  /\ ~upload
  /\ \E blank, direct \in BOOLEAN :
       IF blank
       THEN uiError' = TRUE /\ UNCHANGED upload
       ELSE uiError' = FALSE /\ upload' = direct
  /\ UNCHANGED <<currentStep, selectedTemplate, uiPageCount, uiPageTitles,
                 selectedSpace, pageOrganization, selectedParentPage,
                 newParentTitle, generating, generationSuccess, invocation,
                 started, returned, templateStore, pageWrites>>
  /\ UNCHANGED nonFlowVars

\* uploadTemplate answers: the resolver has stored the template and the
\* component moves to step 2, or an error is shown
UploadResponse ==
  /\ upload
  /\ upload' = FALSE
  /\ \E outcome \in Outcomes :
       IF outcome = "ok"
       THEN /\ templateStore' = templateStore \cup {TemplateKey}
            /\ selectedTemplate' = TemplateKey
            /\ currentStep' = 2
            /\ UNCHANGED uiError
       ELSE /\ uiError' = TRUE
            /\ UNCHANGED <<templateStore, selectedTemplate, currentStep>>
  /\ UNCHANGED <<uiPageCount, uiPageTitles, selectedSpace, pageOrganization,
                 selectedParentPage, newParentTitle, generating,
                 generationSuccess, invocation, started, returned, pageWrites>>
  /\ UNCHANGED nonFlowVars

\* Step 2: the number of pages is chosen; the title list is padded or cut
updatePageCount ==
  /\ currentStep = 2
  /\ \E newCount \in 1..MaxTitles :
       /\ uiPageCount' = newCount
       /\ uiPageTitles' =
            [i \in 1..newCount |->
               IF i <= Len(uiPageTitles) THEN uiPageTitles[i] ELSE ""]
  /\ UNCHANGED <<currentStep, selectedTemplate, selectedSpace,
                 pageOrganization, selectedParentPage, newParentTitle,
                 generating, generationSuccess, uiError, upload, invocation,
                 started, returned, templateStore, pageWrites>>
  /\ UNCHANGED nonFlowVars

\* Step 2: one title field is edited
updatePageTitle ==
  /\ currentStep = 2
  /\ \E index \in 1..Len(uiPageTitles), value \in FlowTitles :
       uiPageTitles' = [uiPageTitles EXCEPT ![index] = value]
  /\ UNCHANGED <<currentStep, selectedTemplate, uiPageCount, selectedSpace,
                 pageOrganization, selectedParentPage, newParentTitle,
                 generating, generationSuccess, uiError, upload, invocation,
                 started, returned, templateStore, pageWrites>>
  /\ UNCHANGED nonFlowVars

\* Step 2: "copy first title to all"
copyFirstTitle ==
  /\ currentStep = 2
  /\ uiPageTitles' =
       IF trim(uiPageTitles[1]) # ""
       THEN [i \in 1..Len(uiPageTitles) |-> uiPageTitles[1]]
       ELSE uiPageTitles
  /\ UNCHANGED <<currentStep, selectedTemplate, uiPageCount, selectedSpace,
                 pageOrganization, selectedParentPage, newParentTitle,
                 generating, generationSuccess, uiError, upload, invocation,
                 started, returned, templateStore, pageWrites>>
  /\ UNCHANGED nonFlowVars

\* filledCount of applyAutofill: findIndex of the first blank title (0-based,
\* -1 without one), read as the end of slice(0, filledCount)
BaseLength(titles) ==
  IF \A i \in 1..Len(titles) : trim(titles[i]) # ""
  THEN Len(titles) - 1
  ELSE (CHOOSE i \in 1..Len(titles) :
          /\ trim(titles[i]) = ""
          /\ \A j \in 1..(i - 1) : trim(titles[j]) # "") - 1

\* the title a detected pattern generates: the next number or month after
\* the base titles, kept here as one non-blank text
PatternTitle == "A"

\* Step 2: "apply autofill": the titles after the base titles are generated
\* from the detected pattern; without a base title, or when the pattern
\* does not fit the last base title, nothing is assigned
applyAutofill ==
  /\ currentStep = 2
  /\ \E fits \in BOOLEAN :
       uiPageTitles' =
         IF fits /\ BaseLength(uiPageTitles) > 0
         THEN [i \in 1..Len(uiPageTitles) |->
                 IF i > BaseLength(uiPageTitles) THEN PatternTitle
                 ELSE uiPageTitles[i]]
         ELSE uiPageTitles
  /\ UNCHANGED <<currentStep, selectedTemplate, uiPageCount, selectedSpace,
                 pageOrganization, selectedParentPage, newParentTitle,
                 generating, generationSuccess, uiError, upload, invocation,
                 started, returned, templateStore, pageWrites>>
  /\ UNCHANGED nonFlowVars

\* "clear all" that restores the three fields of the first render
clearToDefault ==
  /\ currentStep = 2
  /\ uiPageTitles' = <<"", "", "">>
  /\ UNCHANGED <<currentStep, selectedTemplate, uiPageCount, selectedSpace,
                 pageOrganization, selectedParentPage, newParentTitle,
                 generating, generationSuccess, uiError, upload, invocation,
                 started, returned, templateStore, pageWrites>>
  /\ UNCHANGED nonFlowVars

\* Step 2: "clear all"
clearAllTitles ==
  /\ currentStep = 2
  /\ uiPageTitles' = [i \in 1..uiPageCount |-> ""]
  /\ UNCHANGED <<currentStep, selectedTemplate, uiPageCount, selectedSpace,
                 pageOrganization, selectedParentPage, newParentTitle,
                 generating, generationSuccess, uiError, upload, invocation,
                 started, returned, templateStore, pageWrites>>
  /\ UNCHANGED nonFlowVars

\* the Continue button asking for one title only
SomeTitleFilled == nonEmptyTitles(uiPageTitles) # <<>>

\* the Continue button of step 2 is enabled
AllTitlesFilled == Len(nonEmptyTitles(uiPageTitles)) = uiPageCount

\* "Continue" of step 2 that starts the engine on its way to step 3
ContinueAndCreate ==
  /\ currentStep = 2
  /\ AllTitlesFilled
  /\ currentStep' = 3
  /\ pageWrites' = pageWrites + 1
  /\ UNCHANGED <<selectedTemplate, uiPageCount, uiPageTitles, selectedSpace,
                 pageOrganization, selectedParentPage, newParentTitle,
                 generating, generationSuccess, uiError, upload, invocation,
                 started, returned, templateStore>>
  /\ UNCHANGED nonFlowVars

\* Step 2 -> 3: "Continue"
ContinueToLocation ==
  /\ currentStep = 2
  /\ AllTitlesFilled
  /\ currentStep' = 3
  /\ UNCHANGED <<selectedTemplate, uiPageCount, uiPageTitles, selectedSpace,
                 pageOrganization, selectedParentPage, newParentTitle,
                 generating, generationSuccess, uiError, upload, invocation,
                 started, returned, templateStore, pageWrites>>
  /\ UNCHANGED nonFlowVars

\* Step 2 -> 1: "Back to Template" that also empties the title fields
BackToTemplateClearing ==
  /\ currentStep = 2
  /\ currentStep' = 1
  /\ uiPageTitles' = [i \in 1..uiPageCount |-> ""]
  /\ UNCHANGED <<selectedTemplate, uiPageCount, selectedSpace,
                 pageOrganization, selectedParentPage, newParentTitle,
                 generating, generationSuccess, uiError, upload, invocation,
                 started, returned, templateStore, pageWrites>>
  /\ UNCHANGED nonFlowVars

\* Step 2 -> 1: "Back to Template"
BackToTemplate ==
  /\ currentStep = 2
  /\ currentStep' = 1
  /\ UNCHANGED <<selectedTemplate, uiPageCount, uiPageTitles, selectedSpace,
                 pageOrganization, selectedParentPage, newParentTitle,
                 generating, generationSuccess, uiError, upload, invocation,
                 started, returned, templateStore, pageWrites>>
  /\ UNCHANGED nonFlowVars

\* Step 3 -> 2: "Back to Bulk Cloning"
BackToTitles ==
  /\ currentStep = 3
  /\ currentStep' = 2
  /\ uiError' = FALSE
  /\ UNCHANGED <<selectedTemplate, uiPageCount, uiPageTitles, selectedSpace,
                 pageOrganization, selectedParentPage, newParentTitle,
                 generating, generationSuccess, upload, invocation, started,
                 returned, templateStore, pageWrites>>
  /\ UNCHANGED nonFlowVars

\* Step 3: the fields of the location form
EditLocation ==
  /\ currentStep = 3
  /\ \/ /\ selectedSpace' \in SpaceKeys
        /\ selectedParentPage' = ""
        /\ UNCHANGED <<pageOrganization, newParentTitle>>
     \/ /\ pageOrganization' \in UiOrganizations
        /\ UNCHANGED <<selectedSpace, selectedParentPage, newParentTitle>>
     \/ /\ selectedParentPage' \in ParentPages
        /\ UNCHANGED <<selectedSpace, pageOrganization, newParentTitle>>
     \/ /\ newParentTitle' \in ParentTitles
        /\ UNCHANGED <<selectedSpace, pageOrganization, selectedParentPage>>
  /\ UNCHANGED <<currentStep, selectedTemplate, uiPageCount, uiPageTitles,
                 generating, generationSuccess, uiError, upload, invocation,
                 started, returned, templateStore, pageWrites>>
  /\ UNCHANGED nonFlowVars

\* the `disabled` attribute of the "Create Pages" button
CreateDisabled ==
  \/ generating
  \/ selectedSpace = ""
  \/ pageOrganization = "create-child" /\ selectedParentPage = ""
  \/ pageOrganization = "create-parent" /\ trim(newParentTitle) = ""
  \/ selectedTemplate = ""
  \/ nonEmptyTitles(uiPageTitles) = <<>>

\* the validations of generatePages (lines 453-490) all pass
Validated ==
  /\ selectedSpace # ""
  /\ pageOrganization # ""
  /\ ~(pageOrganization = "create-child" /\ selectedParentPage = "")
  /\ ~(pageOrganization = "create-parent" /\ trim(newParentTitle) = "")
  /\ selectedTemplate # ""
  /\ Len(nonEmptyTitles(uiPageTitles)) = uiPageCount

\* Step 3: "Create Pages", that is generatePages up to the await of the
\* engine
generatePages ==
  /\ currentStep = 3
  /\ ~CreateDisabled
  /\ started < MaxRuns
  /\ IF ~Validated
     THEN /\ uiError' = TRUE
          /\ UNCHANGED <<generating, invocation, started>>
     ELSE /\ uiError' = FALSE
          /\ generating' = TRUE
          /\ invocation' =
               [inFlight |-> TRUE,
                pageTitles |-> handleDuplicateNames(nonEmptyTitles(uiPageTitles)),
                created |-> 0]
          /\ started' = started + 1
  /\ UNCHANGED <<currentStep, selectedTemplate, uiPageCount, uiPageTitles,
                 selectedSpace, pageOrganization, selectedParentPage,
                 newParentTitle, generationSuccess, upload, returned,
                 templateStore, pageWrites>>
  /\ UNCHANGED nonFlowVars

\* the engine, invoked, issues the create request of its next title
EngineCreate ==
  /\ invocation.inFlight
  /\ invocation.created < Len(invocation.pageTitles)
  /\ invocation' = [invocation EXCEPT !.created = @ + 1]
  /\ pageWrites' = pageWrites + 1
  /\ UNCHANGED <<currentStep, selectedTemplate, uiPageCount, uiPageTitles,
                 selectedSpace, pageOrganization, selectedParentPage,
                 newParentTitle, generating, generationSuccess, uiError,
                 upload, started, returned, templateStore>>
  /\ UNCHANGED nonFlowVars

\* the invocation settles in a handler without the `finally`: generating is
\* reset only after a return
GenerateResponseNoFinally ==
  /\ invocation.inFlight
  /\ invocation' = NoCall
  /\ \E outcome \in {"returned", "thrown"} :
       IF outcome = "returned"
       THEN /\ generationSuccess' = TRUE
            /\ currentStep' = 4
            /\ returned' = returned + 1
            /\ generating' = FALSE
            /\ UNCHANGED uiError
       ELSE /\ uiError' = TRUE
            /\ UNCHANGED <<generationSuccess, currentStep, returned, generating>>
  /\ UNCHANGED <<selectedTemplate, uiPageCount, uiPageTitles, selectedSpace,
                 pageOrganization, selectedParentPage, newParentTitle, upload,
                 started, templateStore, pageWrites>>
  /\ UNCHANGED nonFlowVars

\* the awaited invocation of the engine settles: it returned (step 4) or it
\* threw (the error is shown, the step stays)
GenerateResponse ==
  /\ invocation.inFlight
  /\ invocation' = NoCall
  /\ generating' = FALSE
  /\ \E outcome \in {"returned", "thrown"} :
       IF outcome = "returned"
       THEN /\ generationSuccess' = TRUE
            /\ currentStep' = 4
            /\ returned' = returned + 1
            /\ UNCHANGED uiError
       ELSE /\ uiError' = TRUE
            /\ UNCHANGED <<generationSuccess, currentStep, returned>>
  /\ UNCHANGED <<selectedTemplate, uiPageCount, uiPageTitles, selectedSpace,
                 pageOrganization, selectedParentPage, newParentTitle, upload,
                 started, templateStore, pageWrites>>
  /\ UNCHANGED nonFlowVars

\* "Create Another" that resets the fields and stays on step 4
CreateAnotherStaying ==
  /\ currentStep = 4
  /\ generationSuccess' = FALSE
  /\ selectedTemplate' = ""
  /\ selectedSpace' = ""
  /\ selectedParentPage' = ""
  /\ newParentTitle' = ""
  /\ pageOrganization' = "create-child"
  /\ uiError' = FALSE
  /\ UNCHANGED <<currentStep, uiPageCount, uiPageTitles, generating, upload,
                 invocation, started, returned, templateStore, pageWrites>>
  /\ UNCHANGED nonFlowVars

\* Step 4 -> 1: "Create Another"
CreateAnother ==
  /\ currentStep = 4
  /\ generationSuccess' = FALSE
  /\ currentStep' = 1
  /\ selectedTemplate' = ""
  /\ selectedSpace' = ""
  /\ selectedParentPage' = ""
  /\ newParentTitle' = ""
  /\ pageOrganization' = "create-child"
  /\ uiError' = FALSE
  /\ UNCHANGED <<uiPageCount, uiPageTitles, generating, upload, invocation,
                 started, returned, templateStore, pageWrites>>
  /\ UNCHANGED nonFlowVars

FlowInit ==
  /\ ResolversIdle
  /\ DedupIdle
  /\ CacheIdle
  /\ BatchIdle
  /\ FlowIdle

FlowNext ==
  \/ handlePageSelect
  \/ handleUrlLoad
  \/ UploadResponse
  \/ updatePageCount
  \/ updatePageTitle
  \/ copyFirstTitle
  \/ clearAllTitles
  \/ applyAutofill
  \/ ContinueToLocation
  \/ BackToTemplate
  \/ BackToTitles
  \/ EditLocation
  \/ generatePages
  \/ EngineCreate
  \/ GenerateResponse
  \/ CreateAnother

SpecFlow == FlowInit /\ [][FlowNext]_vars

FlowTypeOK ==
  /\ currentStep \in 1..4
  /\ Len(uiPageTitles) = uiPageCount
  /\ uiPageCount \in 1..MaxTitles
  /\ returned <= started
  /\ generating = invocation.inFlight

\* C27: a step that changes currentStep issues no page-create request and
\* starts no invocation of the engine, and a step that enters step 4 is the
\* return of an awaited invocation of the engine
C27_TransitionsDoNotWrite ==
  [][ currentStep' # currentStep =>
        /\ pageWrites' = pageWrites
        /\ started' = started
        /\ currentStep' = 4 =>
             /\ invocation.inFlight
             /\ ~invocation'.inFlight
             /\ returned' = returned + 1 ]_vars

\* step 4 has been reached after the engine issued at least two creates
C27_Witness ==
  /\ currentStep = 4
  /\ returned = 1
  /\ pageWrites >= 2

\* a step from step 3 to 2 or from step 2 to 1
StepsBack == currentStep \in {2, 3} /\ currentStep' = currentStep - 1

\* C28: in step 3 the way back to step 2 and in step 2 the way back to step
\* 1 is enabled whatever the fields hold, and a step back leaves the
\* template store, the pages written, the selected template and the
\* entered titles as they are
C28_BackwardFree ==
  /\ [](currentStep = 3 => ENABLED BackToTitles)
  /\ [](currentStep = 2 => ENABLED BackToTemplate)
  /\ [][ StepsBack =>
           /\ templateStore' = templateStore
           /\ pageWrites' = pageWrites
           /\ selectedTemplate' = selectedTemplate
           /\ uiPageTitles' = uiPageTitles
           /\ uiPageCount' = uiPageCount ]_vars

\* back on step 1 from step 3 with the template captured and the titles
\* entered, before any engine run
C28_Witness ==
  /\ currentStep = 1
  /\ started = 0
  /\ selectedSpace = "SK"
  /\ templateStore = {TemplateKey}
  /\ selectedTemplate = TemplateKey
  /\ uiPageTitles = <<"A", "A">>

(***************************************************************************)
(* The cache of part_001 (lines 24-39): a Map of {data, timestamp} read    *)
(* through getCached and written through setCache, and the clock.          *)
(***************************************************************************)
MaxTicks == 3

CACHE_TTL == 5 * 60 * 1000

CacheKeys == {"k1", "k2"}
CacheData == {"d1", "d2"}

\* by how much Date.now() differs between two calls: a millisecond, one
\* less than the TTL, the TTL
TickSizes == {1, CACHE_TTL - 1, CACHE_TTL}

\* Date.now() - cached.timestamp <= CACHE_TTL
FreshInclusive(age) == age <= CACHE_TTL

\* Date.now() - cached.timestamp < CACHE_TTL
Fresh(age) == age < CACHE_TTL

\* cache.get(key) is an entry
Cached(c, key) == key \in DOMAIN c

\* the value getCached(key) returns
getCachedValue(c, key, t) ==
  IF Cached(c, key) /\ Fresh(t - c[key].timestamp) THEN c[key].data ELSE "null"

\* cache.delete(key)
Delete(c, key) == [k \in DOMAIN c \ {key} |-> c[k]]

getCached ==
  \E key \in CacheKeys :
    LET value == getCachedValue(cache, key, now)
        hit == Cached(cache, key) /\ Fresh(now - cache[key].timestamp)
    IN /\ cache' = IF hit THEN cache ELSE Delete(cache, key)
       /\ evicted' = IF hit \/ ~Cached(cache, key) THEN evicted
                     ELSE evicted \cup {key}
       /\ lookup' = [key |-> key,
                     found |-> Cached(cache, key),
                     age |-> IF Cached(cache, key)
                             THEN now - cache[key].timestamp ELSE 0,
                     data |-> value,
                     kept |-> Cached(cache', key)]
       /\ UNCHANGED <<now, ticks>>
       /\ UNCHANGED nonCacheVars

setCache ==
  \E key \in CacheKeys, data \in CacheData :
    /\ cache' = [k \in DOMAIN cache \cup {key} |->
                   IF k = key THEN [data |-> data, timestamp |-> now]
                   ELSE cache[k]]
    /\ UNCHANGED <<now, ticks, lookup, evicted>>
    /\ UNCHANGED nonCacheVars

\* time passes
Tick ==
  /\ ticks < MaxTicks
  /\ \E d \in TickSizes : now' = now + d
  /\ ticks' = ticks + 1
  /\ UNCHANGED <<cache, lookup, evicted>>
  /\ UNCHANGED nonCacheVars

CacheInit ==
  /\ ResolversIdle
  /\ DedupIdle
  /\ FlowIdle
  /\ BatchIdle
  /\ CacheIdle

CacheNext ==
  \/ getCached
  \/ setCache
  \/ Tick

SpecCache == CacheInit /\ [][CacheNext]_vars

\* C29: the last getCached call returned data only from an entry younger
\* than CACHE_TTL; when it met an entry of age CACHE_TTL or more it returned
\* null and the entry was gone after the call; and every entry younger than
\* CACHE_TTL, also one set after such a removal, is returned by getCached
C29_CacheExpires ==
  /\ lookup.data # "null" => lookup.found /\ lookup.age < CACHE_TTL
  /\ (lookup.found /\ lookup.age >= CACHE_TTL) =>
        lookup.data = "null" /\ ~lookup.kept
  /\ \A key \in DOMAIN cache :
        now - cache[key].timestamp < CACHE_TTL =>
           getCachedValue(cache, key, now) = cache[key].data

\* "k1" expired at a lookup, was set again and the last lookup returned the
\* new data
C29_Witness ==
  /\ "k1" \in evicted
  /\ lookup.key = "k1"
  /\ lookup.data = "d2"
  /\ lookup.age = CACHE_TTL - 1

(***************************************************************************)
(* The batching loop of the two bulk resolvers (part_001:846-868,          *)
(* part_000:823-839) on title lists long enough for every batch size.      *)
(***************************************************************************)
MaxPages == 45

\* titlesToCreate of length n
TitlesOfLength(n) == [i \in 1..n |-> TitleAt(i)]

SplitBatches ==
  /\ bpc = "idle"
  /\ bbatches' = MakeBatches(TitlesOfLength(bn), BatchSize(bvariant, bn))
  /\ bpc' = "split"
  /\ UNCHANGED <<bvariant, bn>>
  /\ UNCHANGED nonBatchVars

BatchInit ==
  /\ ResolversIdle
  /\ DedupIdle
  /\ FlowIdle
  /\ CacheIdle
  /\ bvariant \in Variants
  /\ bn \in 1..MaxPages
  /\ bpc = "idle"
  /\ bbatches = <<>>

BatchNext == SplitBatches

SpecBatch == BatchInit /\ [][BatchNext]_vars

\* the batch size the claim gives for n titles: 10 for the legacy resolver,
\* the smaller of 5 and the least c with n <= 10 * c for the other
ClaimedSize(v, n) ==
  IF v = "legacy" THEN 10
  ELSE CHOOSE b \in 1..5 :
         \E c \in 1..n : /\ 10 * (c - 1) < n
                         /\ n <= 10 * c
                         /\ b = IF c > 5 THEN 5 ELSE c

\* the indices of the batches one after the other
RECURSIVE IndicesFrom(_, _)
IndicesFrom(bs, b) ==
  IF b > Len(bs) THEN <<>>
  ELSE [k \in 1..Len(bs[b]) |-> bs[b][k].index] \o IndicesFrom(bs, b + 1)

\* C30: the batches of n >= 1 titles, read one after the other, hold the
\* indices 0..n-1 in order, each once and with its title; every batch but
\* the last has B items and the last has 1..B, where B is 10 for
\* bulkGeneratePages and min(5, max(1, ceil(n/10))) for
\* bulkGeneratePagesWithProgress
C30_Batches ==
  bpc = "split" =>
    LET B == ClaimedSize(bvariant, bn)
        last == Len(bbatches)
    IN /\ bvariant = "progress" => B \in 1..5
       /\ IndicesFrom(bbatches, 1) = [i \in 1..bn |-> i - 1]
       /\ \A b \in 1..last : \A k \in 1..Len(bbatches[b]) :
            bbatches[b][k].title = TitleAt(bbatches[b][k].index + 1)
       /\ last >= 1
       /\ \A b \in 1..(last - 1) : Len(bbatches[b]) = B
       /\ Len(bbatches[last]) \in 1..B

\* 43 titles in the progress resolver: eight batches of five and one of
\* three
C30_Witness ==
  /\ bpc = "split"
  /\ bvariant = "progress"
  /\ bn = 43
  /\ Len(bbatches) = 9
  /\ Len(bbatches[1]) = 5
  /\ Len(bbatches[9]) = 3

(***************************************************************************)
(* Template capture and the template store.                                *)
(***************************************************************************)
\* C33: a capture that is over has returned a result; the result is a
\* success exactly when the template store was written, and a failure
\* carries an error
C33_PersistsIffSuccess ==
  upc = "done" =>
    /\ uresult.kind = "returned"
    /\ uresult.success <=> storage # <<>>
    /\ ~uresult.success => uresult.error # ""

(***************************************************************************)
(* One capture and one bulk run over the same template store, the capture  *)
(* invoked before the run and going on beside it.                          *)
(***************************************************************************)
\* bulk requests that name the template and give every field
StorePayloads ==
  { p \in Payloads :
      /\ p.templateId = "t1"
      /\ p.spaceKey = "SK"
      /\ p.parentPageId = CallerParentId
      /\ p.pageTitle = "S"
      /\ p.newParentTitle = "NP"
      /\ p.pageOrganization \in {"create-child", "create-parent"}
      /\ Len(p.pageTitles) = MaxTitles
      /\ \A i \in 1..Len(p.pageTitles) : p.pageTitles[i] # Blank }

StoreCaptures == {[pageId |-> "77", url |-> <<>>, name |-> n] : n \in {"", "My"}}

StoreInit ==
  /\ ModuleFresh
  /\ storage \in {<<>>, TemplateKey :> StoredTemplate}
  /\ payload \in StorePayloads
  /\ BulkFresh
  /\ CrawlIdle
  /\ TitlesIdle
  /\ LaterIdle
  /\ upayload \in StoreCaptures
  /\ upc = "idle"
  /\ finalPageId = NoId
  /\ fetches = <<>>
  /\ templateId = ""
  /\ uresult = NoCaptureResult

StoreNext ==
  \/ Next
  \/ CaptureStart
  \/ PageResponse
  \/ TemplateStored

SpecStore == StoreInit /\ [][StoreNext]_vars

\* the step is the successful end of a capture
CaptureSucceeds ==
  /\ upc = "awaitStore"
  /\ upc' = "done"
  /\ uresult'.kind = "returned"
  /\ uresult'.success

\* the step is one of the bulk run
BulkStep == pc' # pc \/ requests' # requests \/ result' # result

TitlesAllEntered ==
  /\ Len(uiPageTitles) = uiPageCount
  /\ \A i \in 1..uiPageCount : trim(uiPageTitles[i]) # ""

\* C31: a step from step 2 to step 3 is taken only with all pageCount
\* titles non-blank, and the engine is invoked only from step 3, with a
\* space and a template selected, all pageCount titles non-blank and the
\* field the organization mode needs; so without these the step stays and
\* nothing is invoked
C31_ForwardGated ==
  [][ /\ (currentStep = 2 /\ currentStep' = 3) => TitlesAllEntered
      /\ started' # started =>
           /\ currentStep = 3
           /\ currentStep' = 3
           /\ selectedSpace # ""
           /\ selectedTemplate # ""
           /\ TitlesAllEntered
           /\ pageOrganization = "create-child" => selectedParentPage # ""
           /\ pageOrganization = "create-parent" => trim(newParentTitle) # "" ]_vars

\* the engine was invoked in create-parent mode with a new parent title and
\* no parent page
C31_Witness ==
  /\ currentStep = 3
  /\ invocation.inFlight
  /\ pageOrganization = "create-parent"
  /\ newParentTitle = "NP"
  /\ selectedParentPage = ""

\* C37: currentStep is 1, 2, 3 or 4; on steps 2, 3 and 4 a captured
\* template is selected; a step from step 1 to step 2 is the successful
\* return of a capture; and the selected template is cleared only in a step
\* that ends on step 1
C37_TemplateSelected ==
  /\ [](currentStep \in {1, 2, 3, 4})
  /\ [](currentStep \in {2, 3, 4} =>
          selectedTemplate # "" /\ selectedTemplate \in templateStore)
  /\ [][ /\ (currentStep = 1 /\ currentStep' = 2) =>
              /\ upload
              /\ ~upload'
              /\ selectedTemplate' \in templateStore'
         /\ (selectedTemplate # "" /\ selectedTemplate' = "") =>
              currentStep' = 1 ]_vars

\* after "create another" a capture that was still awaited has returned:
\* step 2 again, with a template, after a run
C37_Witness ==
  /\ currentStep = 2
  /\ returned = 1
  /\ selectedTemplate = TemplateKey
  /\ selectedSpace = ""
  /\ ~upload

\* C38: the title list has exactly pageCount entries in every state, and
\* the list handed to the engine has pageCount titles
C38_TitleCount ==
  /\ [](Len(uiPageTitles) = uiPageCount)
  /\ [][ started' # started =>
           Len(invocation'.pageTitles) = uiPageCount ]_vars

\* two titles, the second from the autofill or typed, were handed to the
\* engine after the count was lowered from three
C38_Witness ==
  /\ uiPageCount = 2
  /\ uiPageTitles = <<"A", "A">>
  /\ invocation.inFlight
  /\ invocation.pageTitles = <<"A", "A (1)">>

\* the step flow when every awaited invocation of the engine settles: the
\* resolver returns or the invoke rejects (at the latest when the platform
\* times the function out)
SpecFlowFair == SpecFlow /\ WF_vars(GenerateResponse)

=============================================================================
